---------------------------- MODULE Spec2Model ----------------------------
(***************************************************************************)
(* BR/EDR pairing state machine of bt-host: gap::PairingState              *)
(* (src/connectivity/bluetooth/core/bt-host/gap/pairing_state.cc).         *)
(*                                                                         *)
(* One PairingState bound to one link.  Every entry point of the class is  *)
(* one action; an action is the whole handler, including the SignalStatus, *)
(* EnableEncryption or FailWithUnexpectedEvent call it ends with.  What a  *)
(* handler does to its collaborators (status callbacks, the link, the      *)
(* pairing delegate, the controller reply callbacks, its return value) is  *)
(* recorded, in program order, in the variable out, together with its      *)
(* writes of state_ and current_pairing_.                                  *)
(***************************************************************************)
EXTENDS Integers, Sequences, FiniteSets

(***************************************************************************)
(* Bounds of the model.                                                    *)
(***************************************************************************)
\* Longest list of initiator callbacks coalesced onto one Pairing.
MaxCallers == 2

(***************************************************************************)
(* Value sets.                                                             *)
(***************************************************************************)
\* hci::IOCapability
IOCapability == {"NoInputNoOutput", "DisplayOnly", "KeyboardOnly", "DisplayYesNo"}

\* sm::IOCapability, what PairingDelegate::io_capability() returns
SmIOCapability == IOCapability \cup {"KeyboardDisplay"}

\* PairingAction
PairingAction ==
  {"Automatic", "DisplayPasskey", "ComparePasskey", "RequestPasskey", "GetConsent"}

\* PairingState::State
State ==
  {"Idle", "InitiatorPairingStarted", "InitiatorWaitIoCapResponse",
   "ResponderWaitIoCapRequest", "WaitUserConfirmationRequest",
   "WaitUserPasskeyRequest", "WaitUserPasskeyNotification",
   "WaitPairingComplete", "WaitLinkKey", "InitiatorWaitAuthComplete",
   "WaitEncryption", "Failed"}

\* hci::LinkKeyType
LinkKeyType ==
  {"Combination", "LocalUnit", "RemoteUnit", "DebugCombination",
   "UnauthenticatedCombination192", "AuthenticatedCombination192",
   "ChangedCombination", "UnauthenticatedCombination256",
   "AuthenticatedCombination256"}

\* hci::StatusCode values a controller event reports
StatusCode == {"kSuccess", "kAuthenticationFailure"}

\* hci::Status values: success, a host error, or a controller (protocol) error
HostError == {"NotReady", "Canceled", "NotSupported", "Failed", "InsufficientSecurity"}
ProtocolError == {"AuthenticationFailure"}
Status == {"Success"} \cup HostError \cup ProtocolError

\* Replies a delegate gives to RequestPasskey: an int64, written in sign and
\* magnitude as (-1 if negative, else 1) * (hi * 2^32 + lo), 0 <= lo < 2^32
Passkey(negative, hi, lo) == [negative |-> negative, hi |-> hi, lo |-> lo]

PasskeyReply ==
  {Passkey(TRUE, 0, 2), Passkey(TRUE, 0, 1), Passkey(FALSE, 0, 0),
   Passkey(FALSE, 0, 123456), Passkey(FALSE, 1, 5)}

\* Values "not set yet" of a freshly made Pairing's fields
Unset == "unset"

(***************************************************************************)
(* Conversions of the collaborating libraries.                             *)
(***************************************************************************)
\* hci::Status(hci::StatusCode)
StatusOfCode(code) ==
  CASE code = "kSuccess" -> "Success"
    [] code = "kAuthenticationFailure" -> "AuthenticationFailure"

\* sm::util::IOCapabilityForHci
IOCapabilityForHci(cap) ==
  IF cap = "KeyboardDisplay" THEN "DisplayYesNo" ELSE cap

\* sm::SecurityProperties(hci::LinkKeyType): level() and authenticated()
SecurityLevel(key_type) ==
  CASE key_type \in {"AuthenticatedCombination192", "AuthenticatedCombination256"}
         -> "Authenticated"
    [] key_type \in {"UnauthenticatedCombination192", "UnauthenticatedCombination256",
                     "DebugCombination"}
         -> "Encrypted"
    [] OTHER -> "NoSecurity"

SecurityAuthenticated(key_type) ==
  key_type \in {"AuthenticatedCombination192", "AuthenticatedCombination256"}

\* static_cast<uint32_t>(int64_t) of a value that is not negative: the low
\* 32 bits
CastUint32(passkey) == passkey.lo

(***************************************************************************)
(* Decision functions (pairing_state.cc, lines 479-551).                   *)
(***************************************************************************)
GetInitiatorPairingAction_NoDisplayOnlyCase(initiator_cap, responder_cap) ==
  IF initiator_cap = "NoInputNoOutput" THEN "Automatic"
  ELSE IF responder_cap = "NoInputNoOutput"
       THEN (IF initiator_cap = "DisplayYesNo" THEN "GetConsent" ELSE "Automatic")
  ELSE IF initiator_cap = "KeyboardOnly" THEN "RequestPasskey"
  ELSE IF responder_cap = "DisplayOnly" /\ initiator_cap = "DisplayYesNo"
       THEN "ComparePasskey"
  ELSE "DisplayPasskey"

GetInitiatorPairingAction(initiator_cap, responder_cap) ==
  IF initiator_cap = "NoInputNoOutput" THEN "Automatic"
  ELSE IF responder_cap = "NoInputNoOutput"
       THEN (IF initiator_cap = "DisplayYesNo" THEN "GetConsent" ELSE "Automatic")
  ELSE IF initiator_cap = "KeyboardOnly" THEN "RequestPasskey"
  ELSE IF responder_cap = "DisplayOnly"
       THEN (IF initiator_cap = "DisplayYesNo" THEN "ComparePasskey" ELSE "Automatic")
  ELSE "DisplayPasskey"

GetResponderPairingAction_NoSwap(initiator_cap, responder_cap) ==
  IF initiator_cap = "NoInputNoOutput" /\ responder_cap = "KeyboardOnly"
  THEN "GetConsent"
  ELSE IF initiator_cap = "DisplayYesNo" /\ responder_cap = "DisplayYesNo"
  THEN "ComparePasskey"
  ELSE GetInitiatorPairingAction(initiator_cap, responder_cap)

GetResponderPairingAction(initiator_cap, responder_cap) ==
  IF initiator_cap = "NoInputNoOutput" /\ responder_cap = "KeyboardOnly"
  THEN "GetConsent"
  ELSE IF initiator_cap = "DisplayYesNo" /\ responder_cap = "DisplayYesNo"
  THEN "ComparePasskey"
  ELSE GetInitiatorPairingAction(responder_cap, initiator_cap)

GetExpectedEvent_PeerKeyboardFirst(local_cap, peer_cap) ==
  IF local_cap = "NoInputNoOutput" \/ peer_cap = "NoInputNoOutput"
  THEN "UserConfirmationRequest"
  ELSE IF peer_cap = "KeyboardOnly" THEN "UserPasskeyNotification"
  ELSE IF local_cap = "KeyboardOnly" THEN "UserPasskeyRequest"
  ELSE "UserConfirmationRequest"

GetExpectedEvent_KeyboardDespiteNoOutput(local_cap, peer_cap) ==
  IF local_cap = "KeyboardOnly" THEN "UserPasskeyRequest"
  ELSE IF local_cap = "NoInputNoOutput" \/ peer_cap = "NoInputNoOutput"
  THEN "UserConfirmationRequest"
  ELSE IF peer_cap = "KeyboardOnly" THEN "UserPasskeyNotification"
  ELSE "UserConfirmationRequest"

GetExpectedEvent(local_cap, peer_cap) ==
  IF local_cap = "NoInputNoOutput" \/ peer_cap = "NoInputNoOutput"
  THEN "UserConfirmationRequest"
  ELSE IF local_cap = "KeyboardOnly" THEN "UserPasskeyRequest"
  ELSE IF peer_cap = "KeyboardOnly" THEN "UserPasskeyNotification"
  ELSE "UserConfirmationRequest"

IsPairingAuthenticated_LocalKeyboardOnly(local_cap, peer_cap) ==
  IF local_cap = "NoInputNoOutput" \/ peer_cap = "NoInputNoOutput" THEN FALSE
  ELSE IF local_cap = "DisplayYesNo" /\ peer_cap = "DisplayYesNo" THEN TRUE
  ELSE IF local_cap = "KeyboardOnly" THEN TRUE
  ELSE FALSE

IsPairingAuthenticated_AnyKeyboard(local_cap, peer_cap) ==
  IF local_cap = "KeyboardOnly" \/ peer_cap = "KeyboardOnly" THEN TRUE
  ELSE IF local_cap = "NoInputNoOutput" \/ peer_cap = "NoInputNoOutput" THEN FALSE
  ELSE local_cap = "DisplayYesNo" /\ peer_cap = "DisplayYesNo"

IsPairingAuthenticated(local_cap, peer_cap) ==
  IF local_cap = "NoInputNoOutput" \/ peer_cap = "NoInputNoOutput" THEN FALSE
  ELSE IF local_cap = "DisplayYesNo" /\ peer_cap = "DisplayYesNo" THEN TRUE
  ELSE IF local_cap = "KeyboardOnly" \/ peer_cap = "KeyboardOnly" THEN TRUE
  ELSE FALSE

GetInitiatorAuthRequirements_AlwaysMITM(local_cap) == "MITMGeneralBonding"

GetInitiatorAuthRequirements(local_cap) ==
  IF local_cap = "NoInputNoOutput" THEN "GeneralBonding" ELSE "MITMGeneralBonding"

GetResponderAuthRequirements(local_cap, peer_cap) ==
  IF IsPairingAuthenticated(local_cap, peer_cap)
  THEN "MITMGeneralBonding" ELSE "GeneralBonding"

GetStateForPairingEvent_NoPasskeyNotification(event_code) ==
  CASE event_code = "UserConfirmationRequest" -> "WaitUserConfirmationRequest"
    [] event_code = "UserPasskeyRequest" -> "WaitUserPasskeyRequest"
    [] OTHER -> "Failed"

\* PairingState::GetStateForPairingEvent
GetStateForPairingEvent(event_code) ==
  CASE event_code = "UserConfirmationRequest" -> "WaitUserConfirmationRequest"
    [] event_code = "UserPasskeyRequest" -> "WaitUserPasskeyRequest"
    [] event_code = "UserPasskeyNotification" -> "WaitUserPasskeyNotification"
    [] OTHER -> "Failed"

(***************************************************************************)
(* State.                                                                  *)
(***************************************************************************)
VARIABLES
  state,             \* state_
  current_pairing,   \* current_pairing_ (unique_ptr): <<>> or <<the Pairing>>
  pairing_delegate,  \* whether a pairing delegate is attached (the weak pointer)
  io_capability,     \* what the delegate's io_capability() returns
  link_key,          \* the link's ltk()/ltk_type(): <<>> or <<[key, type]>>
  pending,           \* the request the delegate has not answered yet, with the
                     \* state of the weak pointer its callback holds: <<>> or
                     \* <<request>>
  crashed,           \* a ZX_ASSERT failed or a null delegate was dereferenced
  encryption_change_callback,  \* the link's encryption change callback:
                     \* "nullptr" or "PairingState::OnEncryptionChange"
  destroyed,         \* ~PairingState has run
  event,             \* the entry point that ran last, with its arguments
  out,               \* what that entry point did to its collaborators, in order
  round_trip,        \* progress of the responder success sequence (observer)
  complete_pairing_calls,  \* how often the delegate's CompletePairing has been
                     \* called for the latest Pairing (observer)
  encryption_requested  \* the link has accepted a StartEncryption request for
                     \* the current Pairing (observer)

vars ==
  <<state, current_pairing, pairing_delegate, io_capability, link_key, pending,
    crashed, encryption_change_callback, destroyed, event, out, round_trip,
    complete_pairing_calls, encryption_requested>>

\* Values of the numeric_value argument of the user confirmation events
NumericValue == {123456}

\* Link keys a LinkKeyNotification carries, and their types
NotifiedKey == {"key1"}

NotifiedKeyType ==
  {"Combination", "DebugCombination", "UnauthenticatedCombination192",
   "AuthenticatedCombination192", "ChangedCombination"}

\* One thing a handler did: op names it, who and arg are its arguments
Op(op, who, arg) == [op |-> op, who |-> who, arg |-> arg]

\* who = TopLevel is status_callback_; who >= 1 is an InitiatePairing callback
TopLevel == 0
StatusCb(who, status) == Op("status_cb", who, status)
Return(value) == Op("return", 0, value)
Reply(value, arg) == Op("reply", value, arg)
DelegateCall(numeric_value, method) == Op("delegate", numeric_value, method)
SetBrEdrLinkKey(key_type) == Op("set_bredr_link_key", 0, key_type)
StartEncryption(accepted) ==
  Op("StartEncryption", 0, IF accepted THEN "accepted" ELSE "refused")
AssertFailed(what) == Op("abort", 0, what)
\* state_ = new_state
SetState(new_state) == Op("set_state", 0, new_state)
\* current_pairing_ = nullptr, the Pairing is destroyed
DiscardPairing == Op("reset_current_pairing", 0, "")

Event(name, n, arg, arg2) == [name |-> name, n |-> n, arg |-> arg, arg2 |-> arg2]

is_pairing == Len(current_pairing) = 1
initiator == is_pairing /\ current_pairing[1].initiator
HasDelegate == pairing_delegate

\* Pairing::MakeInitiator
MakeInitiator(status_callback) ==
  [initiator |-> TRUE, local_iocap |-> Unset, peer_iocap |-> Unset,
   action |-> Unset, expected_event |-> Unset, authenticated |-> Unset,
   security_properties |-> Unset, initiator_callbacks |-> <<status_callback>>]

MakeResponder_AsInitiator(peer_iocap) ==
  [initiator |-> TRUE, local_iocap |-> Unset, peer_iocap |-> peer_iocap,
   action |-> Unset, expected_event |-> Unset, authenticated |-> Unset,
   security_properties |-> Unset, initiator_callbacks |-> <<>>]

\* Pairing::MakeResponder
MakeResponder(peer_iocap) ==
  [initiator |-> FALSE, local_iocap |-> Unset, peer_iocap |-> peer_iocap,
   action |-> Unset, expected_event |-> Unset, authenticated |-> Unset,
   security_properties |-> Unset, initiator_callbacks |-> <<>>]

ComputePairingData_ResponderAsInitiator(p) ==
  [p EXCEPT
     !.action = GetInitiatorPairingAction(p.local_iocap, p.peer_iocap),
     !.expected_event = GetExpectedEvent(p.local_iocap, p.peer_iocap),
     !.authenticated = IsPairingAuthenticated(p.local_iocap, p.peer_iocap)]

\* Pairing::ComputePairingData
ComputePairingData(p) ==
  [p EXCEPT
     !.action = IF p.initiator
                THEN GetInitiatorPairingAction(p.local_iocap, p.peer_iocap)
                ELSE GetResponderPairingAction(p.peer_iocap, p.local_iocap),
     !.expected_event = GetExpectedEvent(p.local_iocap, p.peer_iocap),
     !.authenticated = IsPairingAuthenticated(p.local_iocap, p.peer_iocap)]

\* The callbacks queued on the current Pairing, in arrival order
QueuedCallbacks == IF is_pairing THEN current_pairing[1].initiator_callbacks ELSE <<>>

\* An identifier for the callback a new InitiatePairing call brings
FreshCallback ==
  CHOOSE c \in 1..(MaxCallers + 1) :
    /\ \A i \in 1..Len(QueuedCallbacks) : QueuedCallbacks[i] # c
    /\ \A d \in 1..(MaxCallers + 1) :
         (\A i \in 1..Len(QueuedCallbacks) : QueuedCallbacks[i] # d) => c <= d

WeakPtrsCleared_Kept == pending

\* Destroying the Pairing clears every weak pointer to it
WeakPtrsCleared == [i \in 1..Len(pending) |-> [pending[i] EXCEPT !.alive = FALSE]]

(***************************************************************************)
(* How a handler ends.                                                     *)
(***************************************************************************)
\* The handler returns, leaving these values behind
Finish(new_state, new_pairing, new_link_key, new_pending, done) ==
  /\ state' = new_state
  /\ current_pairing' = new_pairing
  /\ link_key' = new_link_key
  /\ pending' = new_pending
  /\ out' = done
  /\ crashed' = FALSE
  /\ UNCHANGED <<pairing_delegate, io_capability>>

\* The handler aborts the process after doing `done`
Abort(done, what) ==
  /\ crashed' = TRUE
  /\ out' = done \o <<AssertFailed(what)>>
  /\ UNCHANGED <<state, current_pairing, link_key, pending, pairing_delegate,
                 io_capability>>

\* The status callbacks SignalStatus invokes, in order (lines 454-458)
SignalStatusCalls_SkipQueued(status) == <<StatusCb(TopLevel, status)>>

SignalStatusCalls_QueuedFirst(status) ==
  [i \in 1..Len(QueuedCallbacks) |-> StatusCb(QueuedCallbacks[i], status)] \o
  <<StatusCb(TopLevel, status)>>

SignalStatusCalls(status) ==
  <<StatusCb(TopLevel, status)>> \o
  [i \in 1..Len(QueuedCallbacks) |-> StatusCb(QueuedCallbacks[i], status)]

\* lines 446-450: the callbacks are moved out of the Pairing and the Pairing
\* is destroyed
SignalStatusDetach == IF is_pairing THEN <<DiscardPairing>> ELSE <<>>

\* PairingState::SignalStatus, called by a handler that has set state_ to
\* new_state and done `before`, and that does `after` once it returns
SignalStatus(new_state, before, status, after) ==
  Finish(new_state, <<>>, link_key,
         IF is_pairing THEN WeakPtrsCleared ELSE pending,
         before \o <<SetState(new_state)>> \o SignalStatusDetach
           \o SignalStatusCalls(status) \o after)

FailWithUnexpectedEvent_ToIdle(after) == SignalStatus("Idle", <<>>, "NotSupported", after)

\* PairingState::FailWithUnexpectedEvent
FailWithUnexpectedEvent(after) == SignalStatus("Failed", <<>>, "NotSupported", after)

EnableEncryption_IgnoresRefusal(new_pairing, new_link_key, done, accepted) ==
  Finish("WaitEncryption", new_pairing, new_link_key, pending,
         done \o <<StartEncryption(accepted), SetState("WaitEncryption")>>)

\* PairingState::EnableEncryption as the last call of a handler
EnableEncryption(new_pairing, new_link_key, done, accepted) ==
  IF ~accepted
  THEN Finish("Failed", new_pairing, new_link_key, pending,
              done \o <<StartEncryption(FALSE), StatusCb(TopLevel, "Failed"),
                        SetState("Failed")>>)
  ELSE Finish("WaitEncryption", new_pairing, new_link_key, pending,
              done \o <<StartEncryption(TRUE), SetState("WaitEncryption")>>)

(***************************************************************************)
(* Observer of the responder success sequence: stage k says that the last  *)
(* k entry points to run were, in order, the first k of                    *)
(*   IoCapabilityResponse (in Idle), IoCapabilityRequest, the user event   *)
(*   expected for the capabilities, SimplePairingComplete(success),        *)
(*   LinkKeyNotification(key of the expected security),                    *)
(*   EncryptionChange(success, enabled)                                    *)
(* with a delegate attached; top lists the statuses the top-level callback *)
(* has received since the first of them, accepted whether the link         *)
(* accepted the StartEncryption request.                                   *)
(***************************************************************************)
NoRoundTrip == [stage |-> 0, peer |-> Unset, top |-> <<>>, accepted |-> FALSE]

TopLevelStatuses(done) ==
  LET calls == SelectSeq(done, LAMBDA o : o.op = "status_cb" /\ o.who = TopLevel)
  IN  [i \in 1..Len(calls) |-> calls[i].arg]

RoundTripNext ==
  LET e == event'
      rt == round_trip
      local == IOCapabilityForHci(io_capability)
      advance == [rt EXCEPT !.stage = @ + 1, !.top = @ \o TopLevelStatuses(out')]
  IN  IF e.name = "IoCapabilityResponse" /\ state = "Idle" /\ HasDelegate
      THEN [stage |-> 1, peer |-> e.arg, top |-> TopLevelStatuses(out'),
            accepted |-> FALSE]
      ELSE IF rt.stage = 1 /\ e.name = "IoCapabilityRequest" THEN advance
      ELSE IF rt.stage = 2 /\ e.name = GetExpectedEvent(local, rt.peer) THEN advance
      ELSE IF rt.stage = 3 /\ e.name = "SimplePairingComplete" /\ e.arg = "kSuccess"
      THEN advance
      ELSE IF /\ rt.stage = 4
              /\ e.name = "LinkKeyNotification"
              /\ e.arg # "DebugCombination"
              /\ SecurityLevel(e.arg) # "NoSecurity"
              /\ SecurityAuthenticated(e.arg) = IsPairingAuthenticated(local, rt.peer)
      THEN [advance EXCEPT
              !.accepted = \E i \in 1..Len(out') : out'[i] = StartEncryption(TRUE)]
      ELSE IF /\ rt.stage = 5
              /\ e.name = "EncryptionChange"
              /\ e.arg = "Success"
              /\ e.arg2 = "true"
      THEN advance
      ELSE NoRoundTrip

\* Every callback and entry point: it runs only in a live process and is
\* recorded in event; only the constructor and the destructor touch the link's
\* encryption change callback
Called(name, n, arg, arg2) ==
  /\ ~crashed
  /\ event' = Event(name, n, arg, arg2)
  /\ UNCHANGED <<encryption_change_callback, destroyed>>

\* Every entry point the owner of the PairingState calls: the object exists
Entry(name, n, arg, arg2) ==
  /\ ~destroyed
  /\ Called(name, n, arg, arg2)

\* The delegate's CompletePairing calls among what a handler did
CompletePairingCalls(done) ==
  SelectSeq(done, LAMBDA o : /\ o.op = "delegate"
                             /\ o.arg \in {"CompletePairing(Failed)",
                                           "CompletePairing(Success)"})

Observed ==
  /\ round_trip' = RoundTripNext
  /\ complete_pairing_calls' =
       (IF ~is_pairing /\ is_pairing' THEN 0 ELSE complete_pairing_calls)
       + Len(CompletePairingCalls(out'))
  /\ encryption_requested' =
       (/\ is_pairing'
        /\ \/ is_pairing /\ encryption_requested
           \/ \E i \in 1..Len(out') : out'[i] = StartEncryption(TRUE))

(***************************************************************************)
(* Construction (lines 17-24): Idle, no Pairing.  The link may already     *)
(* hold a key from an earlier bond; no delegate has been set yet.  The     *)
(* delegate that will be attached has one of the five capabilities.        *)
(***************************************************************************)
Init ==
  /\ state = "Idle"
  /\ current_pairing = <<>>
  /\ pairing_delegate = FALSE
  /\ io_capability \in SmIOCapability
  /\ link_key \in {<<>>, <<[key |-> "key0", type |-> "UnauthenticatedCombination192"]>>}
  /\ pending = <<>>
  /\ crashed = FALSE
  /\ encryption_change_callback = "PairingState::OnEncryptionChange"
  /\ destroyed = FALSE
  /\ event = Event("PairingState", 0, "", "")
  /\ out = <<>>
  /\ round_trip = NoRoundTrip
  /\ complete_pairing_calls = 0
  /\ encryption_requested = FALSE

(***************************************************************************)
(* PairingState::~PairingState (lines 26-30): cleanup_cb_, set by the      *)
(* constructor at line 23, resets the link's callback; then the members    *)
(* are destroyed, the Pairing among them, without any callback being       *)
(* invoked.                                                                *)
(***************************************************************************)
SetEncryptionChangeCallback(callback) == Op("set_encryption_change_callback", 0, callback)

CleanupCb_KeepsCallback == <<>>

\* line 23: cleanup_cb_
CleanupCb == <<SetEncryptionChangeCallback("nullptr")>>

\* The link's callback after a handler did `done`
CallbackAfter(done) ==
  LET sets == SelectSeq(done, LAMBDA o : o.op = "set_encryption_change_callback")
  IN  IF sets = <<>> THEN encryption_change_callback ELSE sets[Len(sets)].arg

DestroyPairingState ==
  /\ ~crashed
  /\ ~destroyed
  /\ event' = Event("~PairingState", 0, "", "")
  /\ out' = CleanupCb
  /\ encryption_change_callback' = CallbackAfter(out')
  /\ destroyed' = TRUE
  /\ current_pairing' = <<>>
  /\ pending' = WeakPtrsCleared
  /\ UNCHANGED <<state, pairing_delegate, io_capability, link_key, crashed>>
  /\ Observed

(***************************************************************************)
(* The pairing delegate is set and reset by the adapter.                   *)
(***************************************************************************)
SetPairingDelegate ==
  /\ Entry("SetPairingDelegate", 0, "", "")
  /\ ~HasDelegate
  /\ pairing_delegate' = TRUE
  /\ out' = <<>>
  /\ UNCHANGED <<state, current_pairing, io_capability, link_key, pending, crashed>>
  /\ Observed

ResetPairingDelegate ==
  /\ Entry("ResetPairingDelegate", 0, "", "")
  /\ HasDelegate
  /\ pairing_delegate' = FALSE
  /\ out' = <<>>
  /\ UNCHANGED <<state, current_pairing, io_capability, link_key, pending, crashed>>
  /\ Observed

(***************************************************************************)
(* PairingState::InitiatePairing (lines 32-66).                            *)
(***************************************************************************)
\* line 57: the caller's callback joins the Pairing's list
CoalesceCallback_Replace(p, status_cb) ==
  [p EXCEPT !.initiator_callbacks = <<status_cb>>]

CoalesceCallback(p, status_cb) ==
  [p EXCEPT !.initiator_callbacks = Append(@, status_cb)]

\* lines 42-47 against 53-65: only a call in Idle starts a pairing
StartsPairing_WheneverNoPairing == ~is_pairing

StartsPairing == state = "Idle"

\* lines 35-40: without a delegate only the caller hears of it
NoDelegateCalls_RaiseToAll(status_cb) ==
  SignalStatusCalls("NotReady") \o <<Return("DoNotSendAuthenticationRequest")>>

NoDelegateCalls(status_cb) ==
  <<StatusCb(status_cb, "NotReady"), Return("DoNotSendAuthenticationRequest")>>

InitiatePairing ==
  LET status_cb == FreshCallback IN
  /\ Entry("InitiatePairing", status_cb, "", "")
  /\ (HasDelegate /\ ~StartsPairing /\ is_pairing) => Len(QueuedCallbacks) < MaxCallers
  /\ IF ~HasDelegate
     THEN Finish(state, current_pairing, link_key, pending, NoDelegateCalls(status_cb))
     ELSE IF StartsPairing
     THEN IF is_pairing
          THEN Abort(<<>>, "ZX_ASSERT(!is_pairing())")
          ELSE Finish("InitiatorPairingStarted", <<MakeInitiator(status_cb)>>,
                      link_key, pending,
                      <<SetState("InitiatorPairingStarted"),
                        Return("SendAuthenticationRequest")>>)
     ELSE IF is_pairing
     THEN Finish(state, <<CoalesceCallback(current_pairing[1], status_cb)>>,
                 link_key, pending, <<Return("DoNotSendAuthenticationRequest")>>)
     ELSE IF state # "Failed"
     THEN Abort(<<>>, "ZX_ASSERT(state() == State::kFailed)")
     ELSE Finish(state, current_pairing, link_key, pending,
                 <<StatusCb(status_cb, "Canceled"),
                   Return("DoNotSendAuthenticationRequest")>>)
  /\ Observed

(***************************************************************************)
(* PairingState::OnIoCapabilityRequest (lines 68-105).                     *)
(***************************************************************************)
\* lines 84-90: a responder without a delegate gives up with NotReady
ResponderNoDelegate_Failed == SignalStatus("Failed", <<>>, "NotReady", <<Return("nullopt")>>)

ResponderNoDelegate == SignalStatus("Idle", <<>>, "NotReady", <<Return("nullopt")>>)

OnIoCapabilityRequest ==
  LET local_iocap == IOCapabilityForHci(io_capability) IN
  /\ Entry("IoCapabilityRequest", 0, "", "")
  /\ IF state = "InitiatorPairingStarted"
     THEN IF ~initiator
          THEN Abort(<<>>, "ZX_ASSERT(initiator())")
          ELSE IF ~HasDelegate
          THEN Abort(<<>>, "PairingDelegate was reset after pairing began")
          ELSE Finish("InitiatorWaitIoCapResponse",
                      <<[current_pairing[1] EXCEPT !.local_iocap = local_iocap]>>,
                      link_key, pending,
                      <<SetState("InitiatorWaitIoCapResponse"), Return(local_iocap)>>)
     ELSE IF state = "ResponderWaitIoCapRequest"
     THEN IF ~is_pairing
          THEN Abort(<<>>, "ZX_ASSERT(is_pairing())")
          ELSE IF initiator
          THEN Abort(<<>>, "ZX_ASSERT(!initiator())")
          ELSE IF ~HasDelegate
          THEN ResponderNoDelegate
          ELSE LET p == ComputePairingData(
                          [current_pairing[1] EXCEPT !.local_iocap = local_iocap])
               IN  Finish(GetStateForPairingEvent(p.expected_event), <<p>>,
                          link_key, pending,
                          <<SetState(GetStateForPairingEvent(p.expected_event)),
                            Return(local_iocap)>>)
     ELSE FailWithUnexpectedEvent(<<Return("nullopt")>>)
  /\ Observed

(***************************************************************************)
(* PairingState::OnIoCapabilityResponse (lines 107-125).                   *)
(***************************************************************************)
OnIoCapabilityResponse(peer_iocap) ==
  /\ Entry("IoCapabilityResponse", 0, peer_iocap, "")
  /\ IF state = "Idle"
     THEN IF is_pairing
          THEN Abort(<<>>, "ZX_ASSERT(!is_pairing())")
          ELSE Finish("ResponderWaitIoCapRequest", <<MakeResponder(peer_iocap)>>,
                      link_key, pending, <<SetState("ResponderWaitIoCapRequest")>>)
     ELSE IF state = "InitiatorWaitIoCapResponse"
     THEN IF ~initiator
          THEN Abort(<<>>, "ZX_ASSERT(initiator())")
          ELSE LET p == ComputePairingData(
                          [current_pairing[1] EXCEPT !.peer_iocap = peer_iocap])
               IN  Finish(GetStateForPairingEvent(p.expected_event), <<p>>,
                          link_key, pending,
                          <<SetState(GetStateForPairingEvent(p.expected_event))>>)
     ELSE FailWithUnexpectedEvent(<<>>)
  /\ Observed

(***************************************************************************)
(* PairingState::OnUserConfirmationRequest (lines 127-175).                *)
(***************************************************************************)
\* A delegate request whose callback holds a weak pointer to the Pairing; the
\* delegate shows one request at a time, a new one replaces the one before
Request(kind) == <<[kind |-> kind, alive |-> TRUE]>>

\* lines 130, 180: the controller is answered with a rejection
RejectUnexpected_NoReply(rejection) == <<>>

RejectUnexpected(rejection) == <<Reply(0, rejection)>>

OnUserConfirmationRequest(numeric_value) ==
  /\ Entry("UserConfirmationRequest", numeric_value, "", "")
  /\ IF state # "WaitUserConfirmationRequest"
     THEN FailWithUnexpectedEvent(RejectUnexpected("false"))
     ELSE IF ~is_pairing
     THEN Abort(<<>>, "ZX_ASSERT(is_pairing())")
     ELSE IF ~HasDelegate
     THEN Abort(<<>>, "ZX_ASSERT(pairing_delegate())")
     ELSE IF current_pairing[1].action \in {"DisplayPasskey", "ComparePasskey"}
     THEN Finish("WaitPairingComplete", current_pairing, link_key,
                 Request("DisplayPasskey(Comparison)"),
                 <<SetState("WaitPairingComplete"),
                   DelegateCall(numeric_value, "DisplayPasskey(Comparison)")>>)
     ELSE IF current_pairing[1].action = "GetConsent"
     THEN Finish("WaitPairingComplete", current_pairing, link_key,
                 Request("ConfirmPairing"),
                 <<SetState("WaitPairingComplete"), DelegateCall(0, "ConfirmPairing")>>)
     ELSE IF current_pairing[1].action # "Automatic"
     THEN Abort(<<>>, "unexpected action")
     ELSE Finish("WaitPairingComplete", current_pairing, link_key, pending,
                 <<SetState("WaitPairingComplete"), Reply(0, "true")>>)
  /\ Observed

(***************************************************************************)
(* PairingState::OnUserPasskeyRequest (lines 177-206).                     *)
(***************************************************************************)
OnUserPasskeyRequest ==
  /\ Entry("UserPasskeyRequest", 0, "", "")
  /\ IF state # "WaitUserPasskeyRequest"
     THEN FailWithUnexpectedEvent(RejectUnexpected("nullopt"))
     ELSE IF ~is_pairing
     THEN Abort(<<>>, "ZX_ASSERT(is_pairing())")
     ELSE IF ~HasDelegate
     THEN Abort(<<>>, "ZX_ASSERT(pairing_delegate())")
     ELSE IF current_pairing[1].action # "RequestPasskey"
     THEN Abort(<<>>, "unexpected action")
     ELSE Finish("WaitPairingComplete", current_pairing, link_key,
                 Request("RequestPasskey"),
                 <<SetState("WaitPairingComplete"), DelegateCall(0, "RequestPasskey")>>)
  /\ Observed

(***************************************************************************)
(* PairingState::OnUserPasskeyNotification (lines 208-229).                *)
(***************************************************************************)
OnUserPasskeyNotification(numeric_value) ==
  /\ Entry("UserPasskeyNotification", numeric_value, "", "")
  /\ IF state # "WaitUserPasskeyNotification"
     THEN FailWithUnexpectedEvent(<<>>)
     ELSE IF ~is_pairing
     THEN Abort(<<>>, "ZX_ASSERT(is_pairing())")
     ELSE IF ~HasDelegate
     THEN Abort(<<>>, "ZX_ASSERT(pairing_delegate())")
     ELSE Finish("WaitPairingComplete", current_pairing, link_key,
                 Request("DisplayPasskey(PeerEntry)"),
                 <<SetState("WaitPairingComplete"),
                   DelegateCall(numeric_value, "DisplayPasskey(PeerEntry)")>>)
  /\ Observed

(***************************************************************************)
(* The callbacks handed to the delegate (lines 144-152, 158-165, 193-204,  *)
(* 220-226), run when the delegate answers request r.                      *)
(***************************************************************************)
PasskeyReplyToController_OnlyMinusOne(passkey) ==
  IF passkey = Passkey(TRUE, 0, 1)
  THEN Reply(0, "nullopt")
  ELSE Reply(CastUint32(passkey), "passkey")

\* lines 199-203: what a passkey answer becomes for the controller
PasskeyReplyToController(passkey) ==
  IF ~passkey.negative
  THEN Reply(CastUint32(passkey), "passkey")
  ELSE Reply(0, "nullopt")

\* lines 151, 164: what a confirmation answer becomes for the controller
ConfirmationReply_AlwaysTrue(confirm) == Reply(0, "true")

ConfirmationReply(confirm) == Reply(0, IF confirm THEN "true" ELSE "false")

\* lines 220-226: the callback of the peer-entry display only logs the answer
PeerEntryDisplayReply_Confirms(confirm) == <<ConfirmationReply(confirm)>>

PeerEntryDisplayReply(confirm) == <<>>

\* The argument the delegate passes: a bool to the confirmation callbacks, an
\* int64 to the passkey callback; the one the callback does not take is fixed
DelegateAnswer(confirm, passkey) == [confirm |-> confirm, passkey |-> passkey]

DelegateReply(confirm, passkey) ==
  LET r == pending[1] IN
  /\ pending # <<>>
  /\ IF r.kind = "RequestPasskey" THEN ~confirm ELSE passkey = Passkey(FALSE, 0, 0)
  /\ Called("DelegateReply", DelegateAnswer(confirm, passkey), r.kind,
           IF r.alive THEN "alive" ELSE "expired")
  /\ out' = IF ~r.alive
            THEN <<>>
            ELSE IF r.kind = "DisplayPasskey(PeerEntry)"
            THEN PeerEntryDisplayReply(confirm)
            ELSE IF r.kind = "RequestPasskey"
            THEN <<PasskeyReplyToController(passkey)>>
            ELSE <<ConfirmationReply(confirm)>>
  /\ pending' = <<>>
  /\ UNCHANGED <<state, current_pairing, pairing_delegate, io_capability, link_key,
                 crashed>>
  /\ Observed

(***************************************************************************)
(* PairingState::OnSimplePairingComplete (lines 231-252).  Line 250 calls  *)
(* the delegate without a check: with none attached the call goes through  *)
(* a null pointer, and either the process dies there or the call is lost.  *)
(***************************************************************************)
\* line 232: the event is accepted in WaitPairingComplete
ExpectsSimplePairingComplete_AfterAnswer ==
  state = "WaitPairingComplete" /\ pending = <<>>

ExpectsSimplePairingComplete == state = "WaitPairingComplete"

\* lines 242-244: the delegate, if there is one, hears of the failure
TellDelegateFailed_Never == <<>>

TellDelegateFailed ==
  IF HasDelegate THEN <<DelegateCall(0, "CompletePairing(Failed)")>> ELSE <<>>

OnSimplePairingComplete(status_code, null_call_dies) ==
  /\ Entry("SimplePairingComplete", 0, status_code, "")
  /\ IF ~ExpectsSimplePairingComplete
     THEN FailWithUnexpectedEvent(<<>>)
     ELSE IF ~is_pairing
     THEN Abort(<<>>, "ZX_ASSERT(is_pairing())")
     ELSE IF StatusOfCode(status_code) # "Success"
     THEN SignalStatus("Failed", TellDelegateFailed, StatusOfCode(status_code), <<>>)
     ELSE IF HasDelegate
     THEN Finish("WaitLinkKey", current_pairing, link_key, pending,
                 <<DelegateCall(0, "CompletePairing(Success)"), SetState("WaitLinkKey")>>)
     ELSE IF null_call_dies
     THEN Abort(<<>>, "pairing_delegate() is null")
     ELSE Finish("WaitLinkKey", current_pairing, link_key, pending,
                 <<SetState("WaitLinkKey")>>)
  /\ Observed

(***************************************************************************)
(* PairingState::OnLinkKeyNotification (lines 254-313).                    *)
(***************************************************************************)
\* line 287: the key's security level is the lowest one
HasNoSecurity_Never(key_type) == FALSE

HasNoSecurity(key_type) == SecurityLevel(key_type) = "NoSecurity"

\* line 299: the controller's key is not of the authenticated-ness expected
AuthenticatedMismatch_Never(p, key_type) == FALSE

AuthenticatedMismatch(p, key_type) ==
  SecurityAuthenticated(key_type) # p.authenticated

\* line 262: outside pairing only a change of the connection link key is allowed
IsLinkKeyChange_AnyType(key_type) == state = "Idle"

IsLinkKeyChange(key_type) == state = "Idle" /\ key_type = "ChangedCombination"

\* line 263: the link holds no key that a changed-combination key could replace
LinkHasNoKey_Never == FALSE

LinkHasNoKey == link_key = <<>>

\* line 308: an initiator's Pairing goes on to wait for the authentication
\* to complete
AwaitsAuthComplete_AnyLocalCaller == initiator \/ QueuedCallbacks # <<>>

AwaitsAuthComplete == initiator

\* lines 257-259: the assertion on the key type
DebugKeyAsserted_WhilePairing(key_type) == key_type = "DebugCombination" /\ is_pairing

DebugKeyAsserted(key_type) == key_type = "DebugCombination"

OnLinkKeyNotification(link_key_value, key_type, accepted) ==
  LET new_link_key == <<[key |-> link_key_value, type |-> key_type]>> IN
  /\ Entry("LinkKeyNotification", 0, key_type, link_key_value)
  /\ IF DebugKeyAsserted(key_type)
     THEN Abort(<<>>, "insecure Debug Combination link key")
     ELSE IF IsLinkKeyChange(key_type)
     THEN IF LinkHasNoKey
          THEN SignalStatus("Failed", <<>>, "InsufficientSecurity", <<>>)
          ELSE Finish(state, current_pairing, new_link_key, pending,
                      <<SetBrEdrLinkKey(key_type)>>)
     ELSE IF state # "WaitLinkKey"
     THEN FailWithUnexpectedEvent(<<>>)
     ELSE IF ~is_pairing
     THEN Abort(<<>>, "ZX_ASSERT(is_pairing())")
     ELSE IF HasNoSecurity(key_type)
     THEN SignalStatus("Failed", <<>>, "InsufficientSecurity", <<>>)
     ELSE IF AuthenticatedMismatch(current_pairing[1], key_type)
     THEN SignalStatus("Failed", <<>>, "InsufficientSecurity", <<>>)
     ELSE LET p == [current_pairing[1] EXCEPT !.security_properties = key_type]
          IN  IF AwaitsAuthComplete
              THEN Finish("InitiatorWaitAuthComplete", <<p>>, new_link_key, pending,
                          <<SetBrEdrLinkKey(key_type),
                            SetState("InitiatorWaitAuthComplete")>>)
              ELSE EnableEncryption(<<p>>, new_link_key,
                                    <<SetBrEdrLinkKey(key_type)>>, accepted)
  /\ Observed

(***************************************************************************)
(* PairingState::OnAuthenticationComplete (lines 315-331).                 *)
(***************************************************************************)
\* line 316: the two states that expect the event
ExpectsAuthenticationComplete_OnlyAfterLinkKey == state = "InitiatorWaitAuthComplete"

ExpectsAuthenticationComplete ==
  state = "InitiatorPairingStarted" \/ state = "InitiatorWaitAuthComplete"

OnAuthenticationComplete(status_code, accepted) ==
  /\ Entry("AuthenticationComplete", 0, status_code, "")
  /\ IF ~ExpectsAuthenticationComplete
     THEN FailWithUnexpectedEvent(<<>>)
     ELSE IF ~initiator
     THEN Abort(<<>>, "ZX_ASSERT(initiator())")
     ELSE IF StatusOfCode(status_code) # "Success"
     THEN SignalStatus("Failed", <<>>, StatusOfCode(status_code), <<>>)
     ELSE EnableEncryption(current_pairing, link_key, <<>>, accepted)
  /\ Observed

(***************************************************************************)
(* PairingState::OnEncryptionChange (lines 333-361).                       *)
(***************************************************************************)
\* Statuses the link reports with an encryption change
EncryptionStatus == {"Success"} \cup ProtocolError

\* line 334: only WaitEncryption expects the event
ExpectsEncryptionChange_AlsoFailed == state \in {"WaitEncryption", "Failed"}

ExpectsEncryptionChange == state = "WaitEncryption"

\* lines 344-350: a successful change to "disabled" counts as a failure
EncryptionChangeStatus_IgnoreEnabled(status, enabled) == status

EncryptionChangeStatus_Inverted(status, enabled) ==
  IF status = "Success" /\ enabled THEN "Failed" ELSE status

EncryptionChangeStatus(status, enabled) ==
  IF status = "Success" /\ ~enabled THEN "Failed" ELSE status

\* The link reports an encryption change to the callback it holds (line 22)
OnEncryptionChange(status, enabled) ==
  /\ encryption_change_callback = "PairingState::OnEncryptionChange"
  /\ Called("EncryptionChange", 0, status, IF enabled THEN "true" ELSE "false")
  /\ IF destroyed
     THEN \E dies \in BOOLEAN :
            IF dies
            THEN Abort(<<>>, "use of a destroyed PairingState")
            ELSE Finish(state, current_pairing, link_key, pending, <<>>)
     ELSE IF ~ExpectsEncryptionChange
     THEN Finish(state, current_pairing, link_key, pending, <<>>)
     ELSE LET final == EncryptionChangeStatus(status, enabled)
          IN  SignalStatus(IF final = "Success" THEN "Idle" ELSE "Failed",
                           <<>>, final, <<>>)
  /\ Observed

(***************************************************************************)
(* The program: entry points run one at a time, in any order.              *)
(***************************************************************************)
Next ==
  \/ DestroyPairingState
  \/ SetPairingDelegate
  \/ ResetPairingDelegate
  \/ InitiatePairing
  \/ OnIoCapabilityRequest
  \/ \E peer_iocap \in IOCapability : OnIoCapabilityResponse(peer_iocap)
  \/ \E numeric_value \in NumericValue : OnUserConfirmationRequest(numeric_value)
  \/ OnUserPasskeyRequest
  \/ \E numeric_value \in NumericValue : OnUserPasskeyNotification(numeric_value)
  \/ \E confirm \in BOOLEAN, passkey \in PasskeyReply : DelegateReply(confirm, passkey)
  \/ \E status_code \in StatusCode, null_call_dies \in BOOLEAN :
       OnSimplePairingComplete(status_code, null_call_dies)
  \/ \E link_key_value \in NotifiedKey, key_type \in NotifiedKeyType, accepted \in BOOLEAN :
       OnLinkKeyNotification(link_key_value, key_type, accepted)
  \/ \E status_code \in StatusCode, accepted \in BOOLEAN :
       OnAuthenticationComplete(status_code, accepted)
  \/ \E status \in EncryptionStatus, enabled \in BOOLEAN :
       OnEncryptionChange(status, enabled)

Spec == Init /\ [][Next]_vars

(***************************************************************************)
(* Vocabulary of the properties.                                           *)
(***************************************************************************)
\* The status callback invocations among what a handler did, in order
StatusCalls(done) == SelectSeq(done, LAMBDA o : o.op = "status_cb")

\* How often callback who was invoked with status
TimesCalled(done, who, status) ==
  Cardinality({i \in 1..Len(done) : done[i] = StatusCb(who, status)})

\* Exactly the top-level callback and every callback of queue were invoked,
\* each once, all with status
AllNotifiedOnce(done, queue, status) ==
  /\ Len(StatusCalls(done)) = 1 + Len(queue)
  /\ TimesCalled(done, TopLevel, status) = 1
  /\ \A i \in 1..Len(queue) : TimesCalled(done, queue[i], status) = 1

Did(done, o) == \E i \in 1..Len(done) : done[i] = o

DidOp(done, op) == \E i \in 1..Len(done) : done[i].op = op

\* The step is entry point name, and it returned (no assertion failed)
Handled(name) == event'.name = name /\ ~crashed'

(***************************************************************************)
(* C1. With a delegate attached, an InitiatePairing call returns           *)
(* SendAuthenticationRequest exactly when it is made in Idle with no       *)
(* Pairing; that call creates the Pairing and leaves Idle, so every later  *)
(* call of the same negotiation returns DoNotSendAuthenticationRequest.    *)
(* Every call returns exactly one directive.                               *)
(***************************************************************************)
C1_OnlyFirstCallSends ==
  [][Handled("InitiatePairing") =>
       /\ Cardinality({i \in 1..Len(out') : out'[i].op = "return"}) = 1
       /\ Did(out', Return("SendAuthenticationRequest"))
            <=> (HasDelegate /\ state = "Idle" /\ ~is_pairing)
       /\ Did(out', Return("DoNotSendAuthenticationRequest"))
            <=> ~(HasDelegate /\ state = "Idle" /\ ~is_pairing)
       /\ (HasDelegate /\ state = "Idle") =>
            /\ ~is_pairing
            /\ is_pairing' /\ state' # "Idle"
            /\ current_pairing'[1].initiator_callbacks = <<event'.n>>
       /\ (HasDelegate /\ is_pairing) =>
            /\ state' = state
            /\ current_pairing'[1].initiator_callbacks =
                 Append(current_pairing[1].initiator_callbacks, event'.n)]_vars

\* A second caller has coalesced onto the Pairing the first caller started
C1_Witness ==
  /\ event.name = "InitiatePairing"
  /\ pairing_delegate
  /\ is_pairing /\ current_pairing[1].initiator
  /\ Len(current_pairing[1].initiator_callbacks) = 2
  /\ out = <<Return("DoNotSendAuthenticationRequest")>>

(***************************************************************************)
(* C2. Whenever a negotiation terminates (a step from a state with a       *)
(* Pairing, neither Idle nor Failed, to Idle or Failed), the top-level     *)
(* callback and every callback queued on the Pairing are each invoked      *)
(* exactly once, all with the same status.                                 *)
(***************************************************************************)
Terminates ==
  /\ is_pairing
  /\ state \notin {"Idle", "Failed"}
  /\ state' \in {"Idle", "Failed"}

C2_AllNotifiedOnceOnTermination ==
  [][Terminates =>
       \E status \in Status : AllNotifiedOnce(out', QueuedCallbacks, status)]_vars

C4_Original_NoSecurityAlwaysRejected ==
  [][(Handled("LinkKeyNotification") /\ SecurityLevel(event'.arg) = "NoSecurity")
       => /\ link_key' = link_key
          /\ ~DidOp(out', "set_bredr_link_key")
          /\ state' = "Failed"]_vars

(***************************************************************************)
(* C4 as amended. A handled LinkKeyNotification whose key type carries no  *)
(* security is rejected (key not stored, state Failed) in every state,     *)
(* except a changed-combination key received in Idle on a link that holds  *)
(* a key: that key is stored, unclassified, and the state stays Idle.      *)
(***************************************************************************)
C4_NoSecurityRejectedExceptRekey ==
  [][(Handled("LinkKeyNotification") /\ SecurityLevel(event'.arg) = "NoSecurity")
       => IF state = "Idle" /\ event'.arg = "ChangedCombination" /\ link_key # <<>>
          THEN /\ link_key' = <<[key |-> event'.arg2, type |-> event'.arg]>>
               /\ state' = "Idle"
               /\ StatusCalls(out') = <<>>
          ELSE /\ link_key' = link_key
               /\ ~DidOp(out', "set_bredr_link_key")
               /\ state' = "Failed"]_vars

\* A legacy combination key was rejected where a link key was awaited
C4_Witness ==
  /\ event.name = "LinkKeyNotification"
  /\ event.arg = "Combination"
  /\ state = "Failed"
  /\ Did(out, StatusCb(TopLevel, "InsufficientSecurity"))

(***************************************************************************)
(* The transition table of the specification: the states an event is valid *)
(* from.                                                                   *)
(***************************************************************************)
ControllerEvent ==
  {"IoCapabilityRequest", "IoCapabilityResponse", "UserConfirmationRequest",
   "UserPasskeyRequest", "UserPasskeyNotification", "SimplePairingComplete",
   "LinkKeyNotification", "AuthenticationComplete"}

ValidFrom(e, s) ==
  CASE e.name = "IoCapabilityRequest"
         -> s \in {"InitiatorPairingStarted", "ResponderWaitIoCapRequest"}
    [] e.name = "IoCapabilityResponse" -> s \in {"Idle", "InitiatorWaitIoCapResponse"}
    [] e.name = "UserConfirmationRequest" -> s = "WaitUserConfirmationRequest"
    [] e.name = "UserPasskeyRequest" -> s = "WaitUserPasskeyRequest"
    [] e.name = "UserPasskeyNotification" -> s = "WaitUserPasskeyNotification"
    [] e.name = "SimplePairingComplete" -> s = "WaitPairingComplete"
    [] e.name = "LinkKeyNotification"
         -> s = "WaitLinkKey" \/ (s = "Idle" /\ e.arg = "ChangedCombination")
    [] e.name = "AuthenticationComplete"
         -> s \in {"InitiatorPairingStarted", "InitiatorWaitAuthComplete"}
    [] OTHER -> TRUE

\* What the unmatched-event path does
FailsAsUnexpected ==
  /\ ~crashed'
  /\ state' = "Failed"
  /\ AllNotifiedOnce(out', QueuedCallbacks, "NotSupported")
  /\ ~is_pairing'

(***************************************************************************)
(* C5 as claimed. Every controller event handled in a state the transition *)
(* table does not list for it sets the state to Failed, signals            *)
(* NotSupported to the top-level and every queued callback, discards the   *)
(* Pairing, and fails no assertion.                                        *)
(***************************************************************************)
C5_Original_UnmatchedEventFails ==
  [][(event'.name \in ControllerEvent /\ ~ValidFrom(event', state))
       => FailsAsUnexpected]_vars

(***************************************************************************)
(* C5 as amended. The same, for every unmatched controller event other     *)
(* than a LinkKeyNotification of the debug-combination type, whose         *)
(* handler fails its assertion before it looks at the state.               *)
(***************************************************************************)
C5_UnmatchedEventFailsUnlessDebugKey ==
  [][(/\ event'.name \in ControllerEvent
      /\ ~ValidFrom(event', state)
      /\ ~(event'.name = "LinkKeyNotification" /\ event'.arg = "DebugCombination"))
       => FailsAsUnexpected]_vars

\* A passkey request nobody expected failed an initiator's pairing
C5_Witness ==
  /\ event.name = "UserPasskeyRequest"
  /\ state = "Failed"
  /\ ~is_pairing
  /\ out = <<SetState("Failed"), DiscardPairing, StatusCb(TopLevel, "NotSupported"),
             StatusCb(1, "NotSupported"), Reply(0, "nullopt")>>

(***************************************************************************)
(* C6 as claimed. After the responder sequence IoCapabilityResponse,       *)
(* IoCapabilityRequest, the expected user event, SimplePairingComplete     *)
(* (success), LinkKeyNotification(key of the expected security),           *)
(* EncryptionChange(success, enabled), run from Idle with a delegate       *)
(* attached, the state is Idle, no Pairing exists, and the top-level       *)
(* callback has been invoked exactly once, with success.                   *)
(***************************************************************************)
C6_Original_ResponderRoundTrip ==
  round_trip.stage = 6 =>
    /\ state = "Idle"
    /\ ~is_pairing
    /\ round_trip.top = <<"Success">>

(***************************************************************************)
(* C6 as amended. The same, provided the link accepted the request to      *)
(* start encryption that the LinkKeyNotification made.                     *)
(***************************************************************************)
C6_ResponderRoundTripWhenLinkAccepts ==
  (round_trip.stage = 6 /\ round_trip.accepted) =>
    /\ state = "Idle"
    /\ ~is_pairing
    /\ round_trip.top = <<"Success">>
    /\ StatusCalls(out) = <<StatusCb(TopLevel, "Success")>>

\* The whole sequence has run and the link had accepted
C6_Witness ==
  /\ round_trip.stage = 6
  /\ round_trip.accepted
  /\ state = "Idle"
  /\ event.name = "EncryptionChange"

(***************************************************************************)
(* C7. InitiatePairing with no delegate attached invokes the caller's      *)
(* callback, and no other, with NotReady, returns                          *)
(* DoNotSendAuthenticationRequest, and leaves the state, the Pairing and   *)
(* its queued callbacks as they were.                                      *)
(***************************************************************************)
C7_NoDelegateOnlyCallerNotReady ==
  [][(event'.name = "InitiatePairing" /\ ~HasDelegate)
       => /\ ~crashed'
          /\ out' = <<StatusCb(event'.n, "NotReady"),
                      Return("DoNotSendAuthenticationRequest")>>
          /\ event'.n # TopLevel
          /\ \A i \in 1..Len(QueuedCallbacks) : QueuedCallbacks[i] # event'.n
          /\ state' = state
          /\ current_pairing' = current_pairing]_vars

\* The delegate went away during a pairing, then another caller asked
C7_Witness ==
  /\ event.name = "InitiatePairing"
  /\ ~pairing_delegate
  /\ is_pairing
  /\ current_pairing[1].initiator_callbacks = <<1>>
  /\ out = <<StatusCb(2, "NotReady"), Return("DoNotSendAuthenticationRequest")>>

(***************************************************************************)
(* C8. Wherever a delegate is required (IoCapabilityRequest in             *)
(* InitiatorPairingStarted or ResponderWaitIoCapRequest, the three user    *)
(* events and SimplePairingComplete in their states) and none is attached, *)
(* the handler fails no assertion and signals NotReady to the top-level    *)
(* and every queued callback.                                              *)
(***************************************************************************)
DelegateRequired ==
  \/ event'.name = "IoCapabilityRequest"
       /\ state \in {"InitiatorPairingStarted", "ResponderWaitIoCapRequest"}
  \/ event'.name = "UserConfirmationRequest" /\ state = "WaitUserConfirmationRequest"
  \/ event'.name = "UserPasskeyRequest" /\ state = "WaitUserPasskeyRequest"
  \/ event'.name = "UserPasskeyNotification" /\ state = "WaitUserPasskeyNotification"
  \/ event'.name = "SimplePairingComplete" /\ state = "WaitPairingComplete"

C8_NoDelegateFailsNotReady ==
  [][(DelegateRequired /\ ~HasDelegate)
       => /\ ~crashed'
          /\ AllNotifiedOnce(out', QueuedCallbacks, "NotReady")
          /\ ~is_pairing']_vars

(***************************************************************************)
(* C9 as claimed. The initiator's action for (initiator, responder):       *)
(* Automatic if the initiator is NoInputNoOutput; else, if the responder   *)
(* is NoInputNoOutput, GetConsent for a DisplayYesNo initiator and         *)
(* Automatic otherwise; else RequestPasskey if the initiator is            *)
(* KeyboardOnly; else ComparePasskey if the responder is DisplayOnly and   *)
(* the initiator DisplayYesNo; DisplayPasskey in every remaining case.     *)
(***************************************************************************)
ClaimedInitiatorAction(initiator_cap, responder_cap) ==
  CASE initiator_cap = "NoInputNoOutput" -> "Automatic"
    [] initiator_cap # "NoInputNoOutput" /\ responder_cap = "NoInputNoOutput"
         -> IF initiator_cap = "DisplayYesNo" THEN "GetConsent" ELSE "Automatic"
    [] OTHER ->
         IF initiator_cap = "KeyboardOnly" THEN "RequestPasskey"
         ELSE IF responder_cap = "DisplayOnly" /\ initiator_cap = "DisplayYesNo"
         THEN "ComparePasskey"
         ELSE "DisplayPasskey"

\* An initiator's Pairing that has computed its data
InitiatorComputed ==
  /\ is_pairing
  /\ current_pairing[1].initiator
  /\ current_pairing[1].action # Unset

C9_Original_InitiatorAction ==
  InitiatorComputed =>
    current_pairing[1].action =
      ClaimedInitiatorAction(current_pairing[1].local_iocap,
                             current_pairing[1].peer_iocap)

(***************************************************************************)
(* C9 as amended. As claimed, except that with a DisplayOnly responder     *)
(* the action is ComparePasskey for a DisplayYesNo initiator and Automatic *)
(* for a DisplayOnly initiator; the 16 values are the table below.         *)
(***************************************************************************)
InitiatorActionTable ==
  [initiator_cap \in IOCapability |->
     CASE initiator_cap = "NoInputNoOutput" ->
            [responder_cap \in IOCapability |-> "Automatic"]
       [] initiator_cap = "DisplayOnly" ->
            [NoInputNoOutput |-> "Automatic", DisplayOnly |-> "Automatic",
             KeyboardOnly |-> "DisplayPasskey", DisplayYesNo |-> "DisplayPasskey"]
       [] initiator_cap = "KeyboardOnly" ->
            [NoInputNoOutput |-> "Automatic", DisplayOnly |-> "RequestPasskey",
             KeyboardOnly |-> "RequestPasskey", DisplayYesNo |-> "RequestPasskey"]
       [] initiator_cap = "DisplayYesNo" ->
            [NoInputNoOutput |-> "GetConsent", DisplayOnly |-> "ComparePasskey",
             KeyboardOnly |-> "DisplayPasskey", DisplayYesNo |-> "DisplayPasskey"]]

C9_InitiatorActionTable ==
  /\ \A initiator_cap, responder_cap \in IOCapability :
       GetInitiatorPairingAction(initiator_cap, responder_cap) =
         InitiatorActionTable[initiator_cap][responder_cap]
  /\ InitiatorComputed =>
       current_pairing[1].action =
         InitiatorActionTable[current_pairing[1].local_iocap]
                             [current_pairing[1].peer_iocap]

\* Two display-only devices: the initiator pairs without involving the user
C9_Witness ==
  /\ InitiatorComputed
  /\ current_pairing[1].local_iocap = "DisplayOnly"
  /\ current_pairing[1].peer_iocap = "DisplayOnly"
  /\ current_pairing[1].action = "Automatic"

(***************************************************************************)
(* C10. The responder's action for (initiator, responder) is GetConsent    *)
(* when the initiator is NoInputNoOutput and the responder KeyboardOnly,   *)
(* ComparePasskey when both are DisplayYesNo, and otherwise the            *)
(* initiator's action with the roles swapped; a responder's Pairing        *)
(* computes it with the peer as initiator.                                 *)
(***************************************************************************)
ClaimedResponderAction(initiator_cap, responder_cap) ==
  CASE initiator_cap = "NoInputNoOutput" /\ responder_cap = "KeyboardOnly"
         -> "GetConsent"
    [] initiator_cap = "DisplayYesNo" /\ responder_cap = "DisplayYesNo"
         -> "ComparePasskey"
    [] OTHER -> InitiatorActionTable[responder_cap][initiator_cap]

ResponderComputed ==
  /\ is_pairing
  /\ ~current_pairing[1].initiator
  /\ current_pairing[1].action # Unset

C10_ResponderAction ==
  /\ \A initiator_cap, responder_cap \in IOCapability :
       /\ GetResponderPairingAction(initiator_cap, responder_cap) =
            ClaimedResponderAction(initiator_cap, responder_cap)
       /\ ~(\/ initiator_cap = "NoInputNoOutput" /\ responder_cap = "KeyboardOnly"
            \/ initiator_cap = "DisplayYesNo" /\ responder_cap = "DisplayYesNo")
            => GetResponderPairingAction(initiator_cap, responder_cap) =
                 GetInitiatorPairingAction(responder_cap, initiator_cap)
  /\ ResponderComputed =>
       current_pairing[1].action =
         ClaimedResponderAction(current_pairing[1].peer_iocap,
                                current_pairing[1].local_iocap)

\* A keyboard-only responder asks for consent to a peer without input or output
C10_Witness ==
  /\ ResponderComputed
  /\ current_pairing[1].peer_iocap = "NoInputNoOutput"
  /\ current_pairing[1].local_iocap = "KeyboardOnly"
  /\ current_pairing[1].action = "GetConsent"

(***************************************************************************)
(* A Pairing whose IO-capability exchange is complete, either role.        *)
(***************************************************************************)
PairingComputed == is_pairing /\ current_pairing[1].expected_event # Unset

(***************************************************************************)
(* C11. For all 16 (local, peer) pairs GetExpectedEvent is                 *)
(* UserConfirmationRequest if either capability is NoInputNoOutput;        *)
(* otherwise UserPasskeyRequest if local is KeyboardOnly; otherwise        *)
(* UserPasskeyNotification if peer is KeyboardOnly; otherwise              *)
(* UserConfirmationRequest; and that is the event every Pairing expects    *)
(* once it has computed its data.                                          *)
(***************************************************************************)
ClaimedExpectedEvent(local_cap, peer_cap) ==
  CASE "NoInputNoOutput" \in {local_cap, peer_cap} -> "UserConfirmationRequest"
    [] "NoInputNoOutput" \notin {local_cap, peer_cap} /\ local_cap = "KeyboardOnly"
         -> "UserPasskeyRequest"
    [] "NoInputNoOutput" \notin {local_cap, peer_cap} /\ local_cap # "KeyboardOnly"
         /\ peer_cap = "KeyboardOnly"
         -> "UserPasskeyNotification"
    [] OTHER -> "UserConfirmationRequest"

C11_ExpectedEvent ==
  /\ \A local_cap, peer_cap \in IOCapability :
       GetExpectedEvent(local_cap, peer_cap) = ClaimedExpectedEvent(local_cap, peer_cap)
  /\ PairingComputed =>
       current_pairing[1].expected_event =
         ClaimedExpectedEvent(current_pairing[1].local_iocap,
                              current_pairing[1].peer_iocap)

\* Two keyboards: the local side is asked for the passkey
C11_Witness ==
  /\ PairingComputed
  /\ current_pairing[1].local_iocap = "KeyboardOnly"
  /\ current_pairing[1].peer_iocap = "KeyboardOnly"
  /\ current_pairing[1].expected_event = "UserPasskeyRequest"
  /\ state = "WaitUserPasskeyRequest"

(***************************************************************************)
(* C12. For all 16 (local, peer) pairs IsPairingAuthenticated is false if  *)
(* either capability is NoInputNoOutput; otherwise true if both are        *)
(* DisplayYesNo or either is KeyboardOnly; otherwise false.  It is         *)
(* symmetric in its arguments, and it is the authenticated flag of every   *)
(* Pairing that has computed its data.                                     *)
(***************************************************************************)
ClaimedAuthenticated(local_cap, peer_cap) ==
  IF "NoInputNoOutput" \in {local_cap, peer_cap}
  THEN FALSE
  ELSE \/ local_cap = "DisplayYesNo" /\ peer_cap = "DisplayYesNo"
       \/ "KeyboardOnly" \in {local_cap, peer_cap}

C12_Authenticated ==
  /\ \A local_cap, peer_cap \in IOCapability :
       /\ IsPairingAuthenticated(local_cap, peer_cap) =
            ClaimedAuthenticated(local_cap, peer_cap)
       /\ IsPairingAuthenticated(local_cap, peer_cap) =
            IsPairingAuthenticated(peer_cap, local_cap)
  /\ PairingComputed =>
       current_pairing[1].authenticated =
         ClaimedAuthenticated(current_pairing[1].local_iocap,
                              current_pairing[1].peer_iocap)

\* A display-only device pairing with a keyboard expects an authenticated key
C12_Witness ==
  /\ PairingComputed
  /\ current_pairing[1].local_iocap = "DisplayOnly"
  /\ current_pairing[1].peer_iocap = "KeyboardOnly"
  /\ current_pairing[1].authenticated = TRUE

(***************************************************************************)
(* C13. GetInitiatorAuthRequirements is MITM general bonding for every     *)
(* local capability except NoInputNoOutput, for which it is general        *)
(* bonding; GetResponderAuthRequirements is MITM general bonding for a     *)
(* (local, peer) pair exactly when IsPairingAuthenticated(local, peer),    *)
(* for all 16 pairs, and so exactly when a Pairing with these capabilities *)
(* expects an authenticated key.                                           *)
(***************************************************************************)
C13_AuthRequirements ==
  /\ \A local_cap \in IOCapability :
       GetInitiatorAuthRequirements(local_cap) =
         IF local_cap = "NoInputNoOutput" THEN "GeneralBonding"
         ELSE "MITMGeneralBonding"
  /\ \A local_cap, peer_cap \in IOCapability :
       /\ GetResponderAuthRequirements(local_cap, peer_cap)
            \in {"GeneralBonding", "MITMGeneralBonding"}
       /\ GetResponderAuthRequirements(local_cap, peer_cap) = "MITMGeneralBonding"
            <=> IsPairingAuthenticated(local_cap, peer_cap)
  /\ PairingComputed =>
       (GetResponderAuthRequirements(current_pairing[1].local_iocap,
                                     current_pairing[1].peer_iocap)
          = "MITMGeneralBonding") <=> current_pairing[1].authenticated

\* A responder without input or output, whose requirements as an initiator
\* and as a responder are both general bonding, facing a keyboard
C13_Witness ==
  /\ PairingComputed
  /\ ~current_pairing[1].initiator
  /\ current_pairing[1].local_iocap = "NoInputNoOutput"
  /\ current_pairing[1].peer_iocap = "KeyboardOnly"
  /\ GetInitiatorAuthRequirements(current_pairing[1].local_iocap) = "GeneralBonding"
  /\ GetResponderAuthRequirements(current_pairing[1].local_iocap,
                                  current_pairing[1].peer_iocap) = "GeneralBonding"

(***************************************************************************)
(* C14. For every (local, peer) pair the state for the expected event is   *)
(* one of the three user-event wait states, never Failed; and the handler  *)
(* that completes the IO-capability exchange (IoCapabilityResponse of an   *)
(* initiator, IoCapabilityRequest of a responder with a delegate) moves to *)
(* the wait state of the Pairing's expected event, signals nothing, and    *)
(* never moves to Failed.                                                  *)
(***************************************************************************)
WaitUserEventState ==
  {"WaitUserConfirmationRequest", "WaitUserPasskeyRequest",
   "WaitUserPasskeyNotification"}

ExchangeCompletes ==
  \/ Handled("IoCapabilityResponse") /\ state = "InitiatorWaitIoCapResponse"
  \/ Handled("IoCapabilityRequest") /\ state = "ResponderWaitIoCapRequest"
       /\ HasDelegate

C14_ExpectedEventStateNeverFailed ==
  /\ \A local_cap, peer_cap \in IOCapability :
       GetStateForPairingEvent(GetExpectedEvent(local_cap, peer_cap))
         \in WaitUserEventState
  /\ [][ExchangeCompletes =>
          /\ is_pairing'
          /\ state' = GetStateForPairingEvent(current_pairing'[1].expected_event)
          /\ state' \in WaitUserEventState
          /\ state' # "Failed"
          /\ StatusCalls(out') = <<>>]_vars

\* An initiator's exchange ended with the peer about to type the passkey
C14_Witness ==
  /\ event.name = "IoCapabilityResponse"
  /\ PairingComputed
  /\ current_pairing[1].initiator
  /\ current_pairing[1].expected_event = "UserPasskeyNotification"
  /\ state = "WaitUserPasskeyNotification"

(***************************************************************************)
(* C15. After every handler at most one Pairing exists, a Pairing exists   *)
(* only if the state is not Idle, a Pairing comes into being only in an    *)
(* InitiatePairing or IoCapabilityResponse handled in Idle with no         *)
(* Pairing, and an InitiatePairing or IoCapabilityResponse that finds a    *)
(* Pairing and leaves one leaves the same Pairing: same role, the fields   *)
(* already set unchanged, the callbacks queued so far still queued, in     *)
(* order, at the front.                                                    *)
(***************************************************************************)
IsPrefix(s, t) == Len(s) <= Len(t) /\ SubSeq(t, 1, Len(s)) = s

SamePairing(old, new) ==
  /\ new.initiator = old.initiator
  /\ old.local_iocap # Unset => new.local_iocap = old.local_iocap
  /\ old.peer_iocap # Unset => new.peer_iocap = old.peer_iocap
  /\ IsPrefix(old.initiator_callbacks, new.initiator_callbacks)

C15_OnePairingNeverReplaced ==
  /\ Len(current_pairing) <= 1
  /\ is_pairing => state # "Idle"
  /\ [][/\ Len(current_pairing') <= 1
        /\ is_pairing' => state' # "Idle"
        /\ (~is_pairing /\ is_pairing')
             => /\ state = "Idle"
                /\ event'.name \in {"InitiatePairing", "IoCapabilityResponse"}
        /\ (/\ event'.name \in {"InitiatePairing", "IoCapabilityResponse"}
            /\ is_pairing /\ is_pairing')
             => SamePairing(current_pairing[1], current_pairing'[1])]_vars

\* A local caller asked to pair while the peer's pairing was under way: its
\* callback joined the responder's Pairing
C15_Witness ==
  /\ event.name = "InitiatePairing"
  /\ is_pairing
  /\ ~current_pairing[1].initiator
  /\ current_pairing[1].peer_iocap # Unset
  /\ current_pairing[1].initiator_callbacks = <<1>>
  /\ state # "Idle"

(***************************************************************************)
(* C16. Failed is absorbing: no step taken in Failed changes the state,    *)
(* and an InitiatePairing call made in Failed returns                      *)
(* DoNotSendAuthenticationRequest, never SendAuthenticationRequest.        *)
(***************************************************************************)
C16_FailedIsAbsorbing ==
  [][state = "Failed"
       => /\ state' = "Failed"
          /\ ~Did(out', Return("SendAuthenticationRequest"))
          /\ (Handled("InitiatePairing")
                => Did(out', Return("DoNotSendAuthenticationRequest")))]_vars

\* A caller asked to pair after a failure and was turned away
C16_Witness ==
  /\ event.name = "InitiatePairing"
  /\ state = "Failed"
  /\ pairing_delegate
  /\ ~is_pairing
  /\ out = <<StatusCb(1, "Canceled"), Return("DoNotSendAuthenticationRequest")>>

(***************************************************************************)
(* C17. An EncryptionChange handled in any state other than WaitEncryption *)
(* (Idle and Failed included), with any status and any enabled value,      *)
(* changes nothing: the state, the Pairing with its queued callbacks, the  *)
(* link's key and the pending delegate request stay as they were, no       *)
(* callback is invoked and no assertion fails.                             *)
(***************************************************************************)
C17_EncryptionChangeIgnored ==
  [][(event'.name = "EncryptionChange" /\ state # "WaitEncryption")
       => /\ ~crashed'
          /\ out' = <<>>
          /\ UNCHANGED <<state, current_pairing, link_key, pending>>]_vars

\* The peer's failed encryption change arrived while two callers were
\* waiting for the link key
C17_Witness ==
  /\ event.name = "EncryptionChange"
  /\ event.arg = "AuthenticationFailure"
  /\ state = "WaitLinkKey"
  /\ is_pairing
  /\ Len(current_pairing[1].initiator_callbacks) = 2
  /\ out = <<>>

(***************************************************************************)
(* C18. An EncryptionChange handled in WaitEncryption ends the             *)
(* negotiation and discards the Pairing: success and enabled leads to Idle *)
(* and signals success; success and disabled leads to Failed and signals   *)
(* the Failed host error; an error status leads to Failed and signals that *)
(* status.  The top-level and every queued callback hear it once.          *)
(***************************************************************************)
C18_EncryptionChangeEndsNegotiation ==
  [][(event'.name = "EncryptionChange" /\ state = "WaitEncryption")
       => LET status == event'.arg
              enabled == event'.arg2 = "true"
          IN  /\ ~crashed'
              /\ is_pairing /\ ~is_pairing'
              /\ (status = "Success" /\ enabled)
                   => /\ state' = "Idle"
                      /\ AllNotifiedOnce(out', QueuedCallbacks, "Success")
              /\ (status = "Success" /\ ~enabled)
                   => /\ state' = "Failed"
                      /\ AllNotifiedOnce(out', QueuedCallbacks, "Failed")
              /\ status # "Success"
                   => /\ state' = "Failed"
                      /\ AllNotifiedOnce(out', QueuedCallbacks, status)]_vars

\* Encryption was switched off where it should have been switched on
C18_Witness ==
  /\ event.name = "EncryptionChange"
  /\ event.arg = "Success"
  /\ event.arg2 = "false"
  /\ state = "Failed"
  /\ ~is_pairing
  /\ Did(out, StatusCb(TopLevel, "Failed"))
  /\ Did(out, StatusCb(1, "Failed"))

(***************************************************************************)
(* C19. No Pairing exists while the state is Failed, and an                *)
(* InitiatePairing call made in Failed with a delegate attached invokes    *)
(* the caller's callback with Canceled, queues it on no Pairing, leaves    *)
(* the state Failed and returns DoNotSendAuthenticationRequest.            *)
(***************************************************************************)
C19_FailedCancelsInitiatePairing ==
  [][/\ state' = "Failed" => ~is_pairing'
     /\ (event'.name = "InitiatePairing" /\ state = "Failed" /\ HasDelegate)
          => /\ ~crashed'
             /\ out' = <<StatusCb(event'.n, "Canceled"),
                         Return("DoNotSendAuthenticationRequest")>>
             /\ state' = "Failed"
             /\ ~is_pairing']_vars

(***************************************************************************)
(* C20. A handler that signals through SignalStatus first discards the     *)
(* Pairing, if there is one, and only then invokes the top-level callback  *)
(* and after it the queued callbacks in the order their InitiatePairing    *)
(* calls arrived (the k-th call of a negotiation brings callback k), all   *)
(* with one status; with no Pairing it invokes the top-level callback      *)
(* once and nothing else.                                                  *)
(***************************************************************************)
\* The handlers that end in SignalStatus: those that discard the Pairing
\* (the destructor destroys it with the object, without signaling), and
\* without a Pairing every controller event but the two accepted in Idle
SignalsStatus ==
  /\ ~crashed'
  /\ event'.name # "~PairingState"
  /\ \/ is_pairing /\ ~is_pairing'
     \/ /\ ~is_pairing
        /\ event'.name \in ControllerEvent
        /\ \/ ~ValidFrom(event', state)
           \/ event'.name = "LinkKeyNotification" /\ link_key = <<>>

SignalingSteps(done) ==
  SelectSeq(done, LAMBDA o : o.op \in {"reset_current_pairing", "status_cb"})

C20_SignalStatusOrder ==
  [][/\ \A k \in 1..Len(QueuedCallbacks) : QueuedCallbacks[k] = k
     /\ SignalsStatus
          => \E status \in Status :
               SignalingSteps(out') =
                 (IF is_pairing THEN <<DiscardPairing>> ELSE <<>>)
                 \o <<StatusCb(TopLevel, status)>>
                 \o [k \in 1..Len(QueuedCallbacks) |-> StatusCb(k, status)]]_vars

\* Two callers were waiting when the controller reported the failure
C20_Witness ==
  out = <<SetState("Failed"), DiscardPairing,
          StatusCb(TopLevel, "AuthenticationFailure"),
          StatusCb(1, "AuthenticationFailure"), StatusCb(2, "AuthenticationFailure")>>

(***************************************************************************)
(* C21. In every handler, whatever it does to the PairingState's members   *)
(* and through its link reference (writing state_, discarding the Pairing, *)
(* storing a key, asking for encryption) comes before its first status     *)
(* callback; nothing of the kind follows a status callback, on any path,   *)
(* the link's refusal to start encryption included.                        *)
(***************************************************************************)
MemberAccess == {"set_state", "reset_current_pairing", "set_bredr_link_key",
                 "StartEncryption"}

NoMemberAccessAfterCallback(done) ==
  \A i, j \in 1..Len(done) :
    (i < j /\ done[i].op = "status_cb") => done[j].op \notin MemberAccess

C21_NoMemberAccessAfterCallback == [][NoMemberAccessAfterCallback(out')]_vars

(***************************************************************************)
(* C22. A delegate reply never changes the state, the Pairing or the       *)
(* link's key.  A reply to a request whose Pairing has been discarded does *)
(* nothing, also when a new Pairing exists by then; a reply to a           *)
(* confirmation, consent or passkey request whose Pairing is alive         *)
(* forwards the answer to the controller.  A request is alive only while   *)
(* the Pairing that issued it exists: it is issued by a handler that       *)
(* leaves a Pairing, and stays alive only across steps that keep that      *)
(* Pairing.                                                                *)
(***************************************************************************)
ConfirmationRequest == {"DisplayPasskey(Comparison)", "ConfirmPairing"}

RequestAlive == pending # <<>> /\ pending[1].alive

C22_ExpiredDelegateReplyIsNoOp ==
  [][/\ RequestAlive'
          => /\ is_pairing'
             /\ \/ DidOp(out', "delegate")
                \/ pending' = pending /\ is_pairing
     /\ event'.name = "DelegateReply"
          => /\ ~crashed'
             /\ UNCHANGED <<state, current_pairing, link_key>>
             /\ event'.arg2 = (IF RequestAlive THEN "alive" ELSE "expired")
             /\ ~RequestAlive => out' = <<>>
             /\ (RequestAlive /\ event'.arg \in ConfirmationRequest)
                  => out' = <<Reply(0, IF event'.n.confirm THEN "true" ELSE "false")>>
             /\ (RequestAlive /\ event'.arg = "RequestPasskey")
                  => /\ Len(out') = 1
                     /\ out'[1].op = "reply"
                     /\ out'[1].arg \in {"passkey", "nullopt"}]_vars

\* The answer to the first negotiation's comparison arrived when that had
\* failed and the peer had begun another
C22_Witness ==
  /\ event.name = "DelegateReply"
  /\ event.arg = "DisplayPasskey(Comparison)"
  /\ event.arg2 = "expired"
  /\ event.n.confirm
  /\ is_pairing
  /\ state = "ResponderWaitIoCapRequest"
  /\ out = <<>>

(***************************************************************************)
(* C23. A LinkKeyNotification of the debug-combination key type aborts in  *)
(* every state, before the handler changes the state, stores a key,        *)
(* touches the Pairing or invokes a callback.                              *)
(***************************************************************************)
C23_DebugKeyAborts ==
  [][(event'.name = "LinkKeyNotification" /\ event'.arg = "DebugCombination")
       => /\ crashed'
          /\ Len(out') = 1 /\ out'[1].op = "abort"
          /\ UNCHANGED <<state, current_pairing, link_key, pending>>]_vars

\* The debug key arrived outside any pairing, on a link that holds a key
C23_Witness ==
  /\ crashed
  /\ event.name = "LinkKeyNotification"
  /\ event.arg = "DebugCombination"
  /\ state = "Idle"
  /\ ~is_pairing
  /\ link_key # <<>>

(***************************************************************************)
(* C24 as claimed. With a delegate attached, every failure of a Pairing    *)
(* before its link key is accepted (unmatched events and rejected link     *)
(* keys included) calls the delegate's CompletePairing with Failed; no     *)
(* failure after that does; and CompletePairing is called at most once per *)
(* Pairing.                                                                *)
(***************************************************************************)
PairingPhase ==
  {"InitiatorPairingStarted", "InitiatorWaitIoCapResponse",
   "ResponderWaitIoCapRequest", "WaitUserConfirmationRequest",
   "WaitUserPasskeyRequest", "WaitUserPasskeyNotification",
   "WaitPairingComplete", "WaitLinkKey"}

CompletePairingFailed == DelegateCall(0, "CompletePairing(Failed)")
CompletePairingSuccess == DelegateCall(0, "CompletePairing(Success)")

C24_Original_HookOnEveryPairingFailure ==
  [][/\ (/\ state \in PairingPhase /\ is_pairing /\ HasDelegate
         /\ event'.name # "AuthenticationComplete"
         /\ ~crashed' /\ state' = "Failed")
          => Did(out', CompletePairingFailed)
     /\ (state \notin PairingPhase \/ event'.name = "AuthenticationComplete")
          => ~Did(out', CompletePairingFailed)
     /\ complete_pairing_calls' <= 1]_vars

(***************************************************************************)
(* C24 as amended. CompletePairing is called only by a                     *)
(* SimplePairingComplete handled in WaitPairingComplete with a delegate    *)
(* attached: with Failed when its status is an error, with success when it *)
(* is success.  No other failure calls it: not an unmatched event, not a   *)
(* rejected link key, not a failed AuthenticationComplete, a refused       *)
(* encryption start or a failed EncryptionChange.  It is called at most    *)
(* once per Pairing.                                                       *)
(***************************************************************************)
PairingCompleteHandled(succeeded) ==
  /\ event'.name = "SimplePairingComplete"
  /\ state = "WaitPairingComplete"
  /\ (event'.arg = "kSuccess") = succeeded
  /\ HasDelegate

C24_HookOnlyOnSimplePairingComplete ==
  [][/\ Did(out', CompletePairingFailed) <=> PairingCompleteHandled(FALSE)
     /\ Did(out', CompletePairingSuccess) <=> PairingCompleteHandled(TRUE)
     /\ Len(CompletePairingCalls(out')) <= 1
     /\ complete_pairing_calls' <= 1]_vars

\* A link key was rejected after the delegate had been told of success: the
\* delegate hears nothing of the failure
C24_Witness ==
  /\ event.name = "LinkKeyNotification"
  /\ state = "Failed"
  /\ pairing_delegate
  /\ Did(out, StatusCb(TopLevel, "InsufficientSecurity"))
  /\ ~DidOp(out, "delegate")
  /\ complete_pairing_calls = 1

(***************************************************************************)
(* C25. The handler that completes the IO-capability exchange              *)
(* (IoCapabilityResponse in InitiatorWaitIoCapResponse; IoCapabilityRequest*)
(* in ResponderWaitIoCapRequest, a delegate being attached) leaves a       *)
(* Pairing of the same role holding both capabilities, whose action is     *)
(* GetInitiatorPairingAction(local, peer) for an initiator and             *)
(* GetResponderPairingAction(peer, local) for a responder and whose        *)
(* authenticated flag is IsPairingAuthenticated(local, peer), in the wait  *)
(* state of GetExpectedEvent(local, peer).  A handled IoCapabilityRequest  *)
(* in InitiatorPairingStarted only records the local capability and moves  *)
(* to InitiatorWaitIoCapResponse.  In both states the request returns the  *)
(* local capability, which is the delegate's, converted for the controller.*)
(***************************************************************************)
WaitStateOf(event_code) ==
  CASE event_code = "UserConfirmationRequest" -> "WaitUserConfirmationRequest"
    [] event_code = "UserPasskeyRequest" -> "WaitUserPasskeyRequest"
    [] event_code = "UserPasskeyNotification" -> "WaitUserPasskeyNotification"

ExchangeResult(p, is_initiator, local, peer) ==
  /\ p.initiator = is_initiator
  /\ p.local_iocap = local
  /\ p.peer_iocap = peer
  /\ p.action = IF is_initiator
                THEN GetInitiatorPairingAction(local, peer)
                ELSE GetResponderPairingAction(peer, local)
  /\ p.authenticated = IsPairingAuthenticated(local, peer)
  /\ p.expected_event = GetExpectedEvent(local, peer)

ReturnsOnly(done, value) ==
  SelectSeq(done, LAMBDA o : o.op = "return") = <<Return(value)>>

C25_ExchangeComputesPairingData ==
  [][LET local == IOCapabilityForHci(io_capability) IN
     /\ (Handled("IoCapabilityResponse") /\ state = "InitiatorWaitIoCapResponse")
          => /\ is_pairing /\ is_pairing'
             /\ current_pairing[1].initiator
             /\ ExchangeResult(current_pairing'[1], TRUE,
                               current_pairing[1].local_iocap, event'.arg)
             /\ current_pairing'[1].initiator_callbacks =
                  current_pairing[1].initiator_callbacks
             /\ state' = WaitStateOf(GetExpectedEvent(current_pairing[1].local_iocap,
                                                      event'.arg))
     /\ (/\ Handled("IoCapabilityRequest")
         /\ state = "ResponderWaitIoCapRequest"
         /\ HasDelegate)
          => /\ is_pairing /\ is_pairing'
             /\ ~current_pairing[1].initiator
             /\ ExchangeResult(current_pairing'[1], FALSE, local,
                               current_pairing[1].peer_iocap)
             /\ current_pairing'[1].initiator_callbacks =
                  current_pairing[1].initiator_callbacks
             /\ state' = WaitStateOf(GetExpectedEvent(local,
                                                      current_pairing[1].peer_iocap))
             /\ ReturnsOnly(out', local)
     /\ (Handled("IoCapabilityRequest") /\ state = "InitiatorPairingStarted")
          => /\ is_pairing
             /\ current_pairing' =
                  <<[current_pairing[1] EXCEPT !.local_iocap = local]>>
             /\ current_pairing'[1].action = Unset
             /\ state' = "InitiatorWaitIoCapResponse"
             /\ ReturnsOnly(out', local)
     /\ local \in IOCapability]_vars

\* A responder with display and yes/no buttons facing the same: it compares,
\* where an initiator would only display
C25_Witness ==
  /\ event.name = "IoCapabilityRequest"
  /\ is_pairing
  /\ ~current_pairing[1].initiator
  /\ current_pairing[1].local_iocap = "DisplayYesNo"
  /\ current_pairing[1].peer_iocap = "DisplayYesNo"
  /\ current_pairing[1].action = "ComparePasskey"
  /\ current_pairing[1].authenticated = TRUE
  /\ state = "WaitUserConfirmationRequest"
  /\ ReturnsOnly(out, "DisplayYesNo")

(***************************************************************************)
(* C26. IoCapabilityRequest in ResponderWaitIoCapRequest with no delegate  *)
(* attached returns no capability, signals NotReady to the top-level and   *)
(* every queued callback, discards the Pairing and sets the state to Idle, *)
(* where no Pairing exists and a new negotiation can start.                *)
(***************************************************************************)
C26_ResponderWithoutDelegateResets ==
  [][(/\ event'.name = "IoCapabilityRequest"
      /\ state = "ResponderWaitIoCapRequest"
      /\ ~HasDelegate)
       => /\ ~crashed'
          /\ ReturnsOnly(out', "nullopt")
          /\ AllNotifiedOnce(out', QueuedCallbacks, "NotReady")
          /\ is_pairing /\ ~is_pairing'
          /\ state' = "Idle"]_vars

\* The delegate went away while the peer's pairing, which a local caller had
\* joined, was waiting for the request
C26_Witness ==
  /\ event.name = "IoCapabilityRequest"
  /\ state = "Idle"
  /\ ~is_pairing
  /\ ~pairing_delegate
  /\ out = <<SetState("Idle"), DiscardPairing, StatusCb(TopLevel, "NotReady"),
             StatusCb(1, "NotReady"), Return("nullopt")>>

(***************************************************************************)
(* C27. A handled UserConfirmationRequest in WaitUserConfirmationRequest   *)
(* moves to WaitPairingComplete, signals nothing, and routes by the        *)
(* Pairing's action: Automatic replies true to the controller at once and  *)
(* calls no delegate; DisplayPasskey and ComparePasskey call the           *)
(* delegate's DisplayPasskey with the numeric value in Comparison mode;    *)
(* GetConsent calls the delegate's ConfirmPairing; the delegated cases     *)
(* reply nothing yet, and the delegate's answer, while the Pairing is      *)
(* alive, is the boolean replied to the controller.                        *)
(***************************************************************************)
BoolReply(confirm) == Reply(0, IF confirm THEN "true" ELSE "false")

C27_UserConfirmationRouting ==
  [][/\ (Handled("UserConfirmationRequest") /\ state = "WaitUserConfirmationRequest")
          => LET action == current_pairing[1].action
                 moved == SetState("WaitPairingComplete")
             IN  /\ state' = "WaitPairingComplete"
                 /\ current_pairing' = current_pairing
                 /\ action \in {"Automatic", "DisplayPasskey", "ComparePasskey",
                                "GetConsent"}
                 /\ action = "Automatic"
                      => /\ out' = <<moved, Reply(0, "true")>>
                         /\ pending' = pending
                 /\ action \in {"DisplayPasskey", "ComparePasskey"}
                      => /\ out' = <<moved, DelegateCall(event'.n,
                                                        "DisplayPasskey(Comparison)")>>
                         /\ pending' = Request("DisplayPasskey(Comparison)")
                 /\ action = "GetConsent"
                      => /\ out' = <<moved, DelegateCall(0, "ConfirmPairing")>>
                         /\ pending' = Request("ConfirmPairing")
     /\ (/\ event'.name = "DelegateReply"
         /\ RequestAlive
         /\ event'.arg \in ConfirmationRequest)
          => out' = <<BoolReply(event'.n.confirm)>>]_vars

\* The user refused consent and the controller was told so
C27_Witness ==
  /\ event.name = "DelegateReply"
  /\ event.arg = "ConfirmPairing"
  /\ event.arg2 = "alive"
  /\ ~event.n.confirm
  /\ state = "WaitPairingComplete"
  /\ is_pairing /\ current_pairing[1].action = "GetConsent"
  /\ out = <<Reply(0, "false")>>

(***************************************************************************)
(* C28. A handled UserPasskeyRequest in WaitUserPasskeyRequest moves to    *)
(* WaitPairingComplete and asks the delegate for a passkey, replying       *)
(* nothing yet.  The delegate's answer, while the Pairing is alive, is     *)
(* forwarded to the controller as no value when it is negative, whatever   *)
(* its magnitude, and as the value itself when it is not negative and      *)
(* fits 32 bits.                                                           *)
(***************************************************************************)
C28_PasskeyRequestAndReply ==
  [][/\ (Handled("UserPasskeyRequest") /\ state = "WaitUserPasskeyRequest")
          => /\ state' = "WaitPairingComplete"
             /\ current_pairing' = current_pairing
             /\ out' = <<SetState("WaitPairingComplete"),
                         DelegateCall(0, "RequestPasskey")>>
             /\ pending' = Request("RequestPasskey")
     /\ (/\ event'.name = "DelegateReply"
         /\ RequestAlive
         /\ event'.arg = "RequestPasskey")
          => LET passkey == event'.n.passkey
             IN  /\ passkey.negative => out' = <<Reply(0, "nullopt")>>
                 /\ (~passkey.negative /\ passkey.hi = 0)
                      => out' = <<Reply(passkey.lo, "passkey")>>]_vars

\* The delegate answered -2: the controller got no value
C28_Witness ==
  /\ event.name = "DelegateReply"
  /\ event.arg = "RequestPasskey"
  /\ event.arg2 = "alive"
  /\ event.n.passkey = Passkey(TRUE, 0, 2)
  /\ out = <<Reply(0, "nullopt")>>

(***************************************************************************)
(* C29. A SimplePairingComplete in WaitPairingComplete is accepted whether *)
(* or not the delegate has answered its request.  With an error status the *)
(* delegate, if attached, is told CompletePairing(Failed) first, then the  *)
(* state becomes Failed, the Pairing is discarded and the controller's     *)
(* status is signaled to the top-level and every queued callback.  With    *)
(* success and a delegate attached the delegate is told                    *)
(* CompletePairing(success), the state becomes WaitLinkKey, the Pairing    *)
(* and the outstanding request stay, and nothing is signaled.              *)
(***************************************************************************)
C29_SimplePairingComplete ==
  [][(event'.name = "SimplePairingComplete" /\ state = "WaitPairingComplete")
       => /\ is_pairing
          /\ event'.arg # "kSuccess"
               => /\ ~crashed'
                  /\ state' = "Failed"
                  /\ ~is_pairing'
                  /\ AllNotifiedOnce(out', QueuedCallbacks, StatusOfCode(event'.arg))
                  /\ StatusOfCode(event'.arg) # "Success"
                  /\ CompletePairingCalls(out') =
                       (IF HasDelegate THEN <<CompletePairingFailed>> ELSE <<>>)
                  /\ HasDelegate => out'[1] = CompletePairingFailed
          /\ (event'.arg = "kSuccess" /\ HasDelegate)
               => /\ ~crashed'
                  /\ state' = "WaitLinkKey"
                  /\ out' = <<CompletePairingSuccess, SetState("WaitLinkKey")>>
                  /\ UNCHANGED <<current_pairing, pending, link_key>>]_vars

\* Pairing completed while the user had not yet answered the comparison
C29_Witness ==
  /\ event.name = "SimplePairingComplete"
  /\ event.arg = "kSuccess"
  /\ state = "WaitLinkKey"
  /\ pending = Request("DisplayPasskey(Comparison)")
  /\ out = <<CompletePairingSuccess, SetState("WaitLinkKey")>>

(***************************************************************************)
(* C30 as claimed. A handled LinkKeyNotification in WaitLinkKey whose key  *)
(* passes both security checks stores the key on the link; an initiator's  *)
(* Pairing then moves to InitiatorWaitAuthComplete without asking for      *)
(* encryption; a responder's Pairing, also one that local callers have     *)
(* joined, asks for encryption and moves to WaitEncryption.                *)
(***************************************************************************)
KeyAccepted ==
  /\ Handled("LinkKeyNotification")
  /\ state = "WaitLinkKey"
  /\ SecurityLevel(event'.arg) # "NoSecurity"
  /\ SecurityAuthenticated(event'.arg) = current_pairing[1].authenticated

KeyStored ==
  /\ link_key' = <<[key |-> event'.arg2, type |-> event'.arg]>>
  /\ out'[1] = SetBrEdrLinkKey(event'.arg)
  /\ is_pairing'
  /\ current_pairing'[1].initiator = current_pairing[1].initiator
  /\ current_pairing'[1].initiator_callbacks = current_pairing[1].initiator_callbacks

InitiatorAwaitsAuthComplete ==
  /\ state' = "InitiatorWaitAuthComplete"
  /\ ~DidOp(out', "StartEncryption")
  /\ StatusCalls(out') = <<>>

C30_Original_AcceptedKeyByRole ==
  [][KeyAccepted
       => /\ KeyStored
          /\ current_pairing[1].initiator => InitiatorAwaitsAuthComplete
          /\ ~current_pairing[1].initiator
               => /\ DidOp(out', "StartEncryption")
                  /\ state' = "WaitEncryption"]_vars

(***************************************************************************)
(* C30 as amended. The same, except that a responder's Pairing moves to    *)
(* WaitEncryption only if the link accepts the request to start            *)
(* encryption; if the link refuses it the state becomes Failed.  Only an   *)
(* AuthenticationComplete asks for encryption on an initiator's Pairing.   *)
(***************************************************************************)
C30_AcceptedKeyByRole ==
  [][/\ KeyAccepted
          => /\ KeyStored
             /\ current_pairing[1].initiator => InitiatorAwaitsAuthComplete
             /\ ~current_pairing[1].initiator
                  => /\ out'[2] \in {StartEncryption(TRUE), StartEncryption(FALSE)}
                     /\ Did(out', StartEncryption(TRUE))
                          => /\ state' = "WaitEncryption"
                             /\ StatusCalls(out') = <<>>
                     /\ Did(out', StartEncryption(FALSE)) => state' = "Failed"
     /\ (DidOp(out', "StartEncryption") /\ initiator)
          => event'.name = "AuthenticationComplete"]_vars

\* A responder's Pairing that a local caller had joined went on to encrypt
C30_Witness ==
  /\ event.name = "LinkKeyNotification"
  /\ state = "WaitEncryption"
  /\ is_pairing
  /\ ~current_pairing[1].initiator
  /\ current_pairing[1].initiator_callbacks = <<1>>
  /\ link_key = <<[key |-> "key1", type |-> event.arg]>>
  /\ out = <<SetBrEdrLinkKey(event.arg), StartEncryption(TRUE),
             SetState("WaitEncryption")>>

AuthCompleteAccepted ==
  /\ Handled("AuthenticationComplete")
  /\ state \in {"InitiatorPairingStarted", "InitiatorWaitAuthComplete"}

AuthCompleteElsewhere ==
  (Handled("AuthenticationComplete")
     /\ state \notin {"InitiatorPairingStarted", "InitiatorWaitAuthComplete"})
    => /\ state' = "Failed"
       /\ ~is_pairing'
       /\ AllNotifiedOnce(out', QueuedCallbacks, "NotSupported")
       /\ ~DidOp(out', "StartEncryption")

AuthCompleteError ==
  (AuthCompleteAccepted /\ event'.arg # "kSuccess")
    => /\ state' = "Failed"
       /\ ~is_pairing'
       /\ AllNotifiedOnce(out', QueuedCallbacks, StatusOfCode(event'.arg))
       /\ ~DidOp(out', "StartEncryption")

\* Nothing but the request to the link: no key stored, no pairing data set
AsksOnlyForEncryption ==
  /\ out'[1] \in {StartEncryption(TRUE), StartEncryption(FALSE)}
  /\ ~DidOp(out', "set_bredr_link_key")
  /\ UNCHANGED <<current_pairing, link_key>>

C32_Original_AuthenticationComplete ==
  [][/\ AuthCompleteElsewhere
     /\ AuthCompleteError
     /\ (AuthCompleteAccepted /\ event'.arg = "kSuccess")
          => /\ AsksOnlyForEncryption
             /\ state' = "WaitEncryption"]_vars

(***************************************************************************)
(* C32 as amended. The same, except that after a successful               *)
(* AuthenticationComplete the state becomes WaitEncryption only if the     *)
(* link accepts the request to start encryption; if the link refuses it    *)
(* the state becomes Failed.                                               *)
(***************************************************************************)
C32_AuthenticationComplete ==
  [][/\ AuthCompleteElsewhere
     /\ AuthCompleteError
     /\ (AuthCompleteAccepted /\ event'.arg = "kSuccess")
          => /\ AsksOnlyForEncryption
             /\ out'[1] = StartEncryption(TRUE)
                  => /\ state' = "WaitEncryption"
                     /\ StatusCalls(out') = <<>>
             /\ out'[1] = StartEncryption(FALSE) => state' = "Failed"]_vars

\* Authentication completed before any IO capability was exchanged, and the
\* link went on to encrypt
C32_Witness ==
  /\ event.name = "AuthenticationComplete"
  /\ event.arg = "kSuccess"
  /\ state = "WaitEncryption"
  /\ is_pairing
  /\ current_pairing[1].local_iocap = Unset
  /\ current_pairing[1].peer_iocap = Unset
  /\ current_pairing[1].security_properties = Unset
  /\ out = <<StartEncryption(TRUE), SetState("WaitEncryption")>>

(***************************************************************************)
(* C33. From construction to destruction the link's encryption change      *)
(* callback is PairingState::OnEncryptionChange; the destructor resets it  *)
(* to none, and it stays none; so no EncryptionChange is delivered to a    *)
(* destroyed PairingState.                                                 *)
(***************************************************************************)
C33_HookDetachedOnDestruction ==
  /\ [](encryption_change_callback =
          IF destroyed THEN "nullptr" ELSE "PairingState::OnEncryptionChange")
  /\ [][/\ event'.name = "~PairingState"
             => /\ ~destroyed /\ destroyed'
                /\ out' = <<SetEncryptionChangeCallback("nullptr")>>
        /\ event'.name = "EncryptionChange" => ~destroyed
        /\ destroyed => destroyed']_vars

\* Destroyed while the link's answer to StartEncryption was still awaited
C33_Witness ==
  /\ destroyed
  /\ event.name = "~PairingState"
  /\ state = "WaitEncryption"
  /\ encryption_change_callback = "nullptr"
  /\ out = <<SetEncryptionChangeCallback("nullptr")>>

(***************************************************************************)
(* C34. While the PairingState exists, the state and the Pairing change    *)
(* only in a step of InitiatePairing or of a controller event handler: no  *)
(* delegate reply and no change of delegate changes either, and the        *)
(* delegate's answer to the peer-entry display of a UserPasskeyNotification*)
(* sends nothing to the controller.  There is no other step, so a machine  *)
(* that none of these entry points is called on keeps its state.           *)
(***************************************************************************)
EntryPoints ==
  {"InitiatePairing", "IoCapabilityRequest", "IoCapabilityResponse",
   "UserConfirmationRequest", "UserPasskeyRequest", "UserPasskeyNotification",
   "SimplePairingComplete", "LinkKeyNotification", "AuthenticationComplete",
   "EncryptionChange"}

C34_NoInternalProgress ==
  [][/\ (~destroyed' /\ (state' # state \/ current_pairing' # current_pairing))
          => event'.name \in EntryPoints
     /\ event'.name = "DelegateReply"
          => /\ state' = state
             /\ destroyed \/ current_pairing' = current_pairing
             /\ StatusCalls(out') = <<>>
     /\ (event'.name = "DelegateReply" /\ event'.arg = "DisplayPasskey(PeerEntry)")
          => out' = <<>>]_vars

\* The delegate answered the peer-entry display while pairing went on
C34_Witness ==
  /\ event.name = "DelegateReply"
  /\ event.arg = "DisplayPasskey(PeerEntry)"
  /\ event.arg2 = "alive"
  /\ event.n.confirm
  /\ state = "WaitPairingComplete"
  /\ is_pairing
  /\ out = <<>>

(***************************************************************************)
(* C35. A status callback, top-level or queued, is invoked with success    *)
(* only by an EncryptionChange(success, enabled) handled in WaitEncryption *)
(* for a Pairing for which the link has accepted a StartEncryption         *)
(* request, and that step signals nothing but success; every other step    *)
(* that invokes a status callback passes an error status.                  *)
(***************************************************************************)
SignalsSuccess == \E i \in 1..Len(out') : out'[i].op = "status_cb" /\ out'[i].arg = "Success"

C35_SuccessOnlyAfterEncryption ==
  [][SignalsSuccess
       => /\ event'.name = "EncryptionChange"
          /\ event'.arg = "Success"
          /\ event'.arg2 = "true"
          /\ state = "WaitEncryption"
          /\ is_pairing
          /\ encryption_requested
          /\ AllNotifiedOnce(out', QueuedCallbacks, "Success")]_vars

\* An initiator's caller was told of the success
C35_Witness ==
  /\ event.name = "EncryptionChange"
  /\ state = "Idle"
  /\ out = <<SetState("Idle"), DiscardPairing, StatusCb(TopLevel, "Success"),
             StatusCb(1, "Success")>>

(***************************************************************************)
(* C36. The link's key is set, and changes, only in a LinkKeyNotification  *)
(* handled either in WaitLinkKey with a key whose security level is not    *)
(* no-security and whose authenticated flag equals the Pairing's, or in    *)
(* Idle with a changed-combination key while the link holds a key; the     *)
(* key set is the notified one.  Every other step, every rejection among   *)
(* them, leaves the link's key as it was.                                  *)
(***************************************************************************)
StoresKey == DidOp(out', "set_bredr_link_key")

KeyPassesChecks ==
  /\ state = "WaitLinkKey"
  /\ is_pairing
  /\ SecurityLevel(event'.arg) # "NoSecurity"
  /\ SecurityAuthenticated(event'.arg) = current_pairing[1].authenticated

Rekey ==
  /\ state = "Idle"
  /\ event'.arg = "ChangedCombination"
  /\ link_key # <<>>

C36_KeyStoredOnlyWhenChecked ==
  [][/\ StoresKey
          => /\ event'.name = "LinkKeyNotification"
             /\ KeyPassesChecks \/ Rekey
             /\ link_key' = <<[key |-> event'.arg2, type |-> event'.arg]>>
     /\ ~StoresKey => link_key' = link_key
     /\ (Handled("LinkKeyNotification") /\ ~KeyPassesChecks /\ ~Rekey) => ~StoresKey]_vars

\* An initiator's authenticated key was stored over the key of an earlier bond
C36_Witness ==
  /\ event.name = "LinkKeyNotification"
  /\ state = "InitiatorWaitAuthComplete"
  /\ current_pairing[1].authenticated = TRUE
  /\ link_key = <<[key |-> "key1", type |-> "AuthenticatedCombination192"]>>
  /\ out = <<SetBrEdrLinkKey("AuthenticatedCombination192"),
             SetState("InitiatorWaitAuthComplete")>>

(***************************************************************************)
(* C37. For every pair of capabilities and both roles, the action that     *)
(* ComputePairingData computes fits the event it expects: RequestPasskey   *)
(* when it expects a UserPasskeyRequest, and one of Automatic,             *)
(* DisplayPasskey, ComparePasskey, GetConsent when it expects a            *)
(* UserConfirmationRequest.  Every Pairing that has computed its data is   *)
(* such a one, so the assertions on the action in the two handlers never   *)
(* fail.                                                                   *)
(***************************************************************************)
ConfirmationActions == {"Automatic", "DisplayPasskey", "ComparePasskey", "GetConsent"}

ActionFitsEvent(p) ==
  /\ p.expected_event = "UserPasskeyRequest" => p.action = "RequestPasskey"
  /\ p.expected_event = "UserConfirmationRequest" => p.action \in ConfirmationActions

\* The Pairing of each role after the exchange of local_cap and peer_cap
ComputedPairing(is_initiator, local_cap, peer_cap) ==
  ComputePairingData(
    [(IF is_initiator THEN MakeInitiator(1) ELSE MakeResponder(peer_cap))
       EXCEPT !.local_iocap = local_cap, !.peer_iocap = peer_cap])

C37_ActionFitsExpectedEvent ==
  /\ \A is_initiator \in BOOLEAN, local_cap \in IOCapability, peer_cap \in IOCapability :
       ActionFitsEvent(ComputedPairing(is_initiator, local_cap, peer_cap))
  /\ PairingComputed
       => /\ ActionFitsEvent(current_pairing[1])
          /\ current_pairing[1] =
               [ComputedPairing(current_pairing[1].initiator,
                                current_pairing[1].local_iocap,
                                current_pairing[1].peer_iocap)
                  EXCEPT !.initiator_callbacks = current_pairing[1].initiator_callbacks,
                         !.security_properties = current_pairing[1].security_properties]
  /\ ~Did(out, AssertFailed("unexpected action"))

\* A responder with a keyboard passed the assertion of the passkey handler
C37_Witness ==
  /\ event.name = "UserPasskeyRequest"
  /\ state = "WaitPairingComplete"
  /\ ~crashed
  /\ is_pairing
  /\ ~current_pairing[1].initiator
  /\ current_pairing[1].action = "RequestPasskey"
  /\ out = <<SetState("WaitPairingComplete"), DelegateCall(0, "RequestPasskey")>>

(***************************************************************************)
(* C38. For every pair of capabilities and both roles, a Pairing whose     *)
(* computed authenticated flag is true has an action that involves the     *)
(* user with a passkey: neither Automatic nor GetConsent.  It holds of     *)
(* every Pairing that has computed its data.                               *)
(***************************************************************************)
AuthenticatedNeedsPasskey(p) ==
  p.authenticated = TRUE => p.action \notin {"Automatic", "GetConsent"}

C38_AuthenticatedNeedsPasskey ==
  /\ \A is_initiator \in BOOLEAN, local_cap \in IOCapability, peer_cap \in IOCapability :
       AuthenticatedNeedsPasskey(ComputedPairing(is_initiator, local_cap, peer_cap))
  /\ PairingComputed
       => /\ current_pairing[1].authenticated \in BOOLEAN
          /\ AuthenticatedNeedsPasskey(current_pairing[1])

\* The peer has the keyboard: an authenticated key is expected after the
\* passkey was displayed for entry on the peer
C38_Witness ==
  /\ event.name = "UserPasskeyNotification"
  /\ state = "WaitPairingComplete"
  /\ is_pairing
  /\ current_pairing[1].peer_iocap = "KeyboardOnly"
  /\ current_pairing[1].authenticated = TRUE
  /\ current_pairing[1].action = "DisplayPasskey"

(***************************************************************************)
(* C39. While the PairingState exists (and whether or not a delegate is    *)
(* attached): in every state other than Idle and Failed there is a         *)
(* Pairing, and in Idle there is none; in InitiatorPairingStarted,         *)
(* InitiatorWaitIoCapResponse and InitiatorWaitAuthComplete the Pairing is *)
(* an initiator's, in ResponderWaitIoCapRequest a responder's; the role of *)
(* a Pairing never changes.  So no handler fails an assertion on the       *)
(* presence or the role of the Pairing.                                    *)
(***************************************************************************)
PairingAssertions ==
  {AssertFailed("ZX_ASSERT(is_pairing())"), AssertFailed("ZX_ASSERT(!is_pairing())"),
   AssertFailed("ZX_ASSERT(initiator())"), AssertFailed("ZX_ASSERT(!initiator())"),
   AssertFailed("ZX_ASSERT(state() == State::kFailed)")}

PairingFitsState ==
  /\ state \notin {"Idle", "Failed"} => is_pairing
  /\ state = "Idle" => ~is_pairing
  /\ state \in {"InitiatorPairingStarted", "InitiatorWaitIoCapResponse",
                "InitiatorWaitAuthComplete"}
       => current_pairing[1].initiator
  /\ state = "ResponderWaitIoCapRequest" => ~current_pairing[1].initiator

C39_PairingFitsState ==
  /\ [](~destroyed => PairingFitsState)
  /\ [](\A i \in 1..Len(out) : out[i] \notin PairingAssertions)
  /\ [][(is_pairing /\ is_pairing')
          => current_pairing'[1].initiator = current_pairing[1].initiator]_vars

\* A responder's Pairing passed the assertions of OnIoCapabilityRequest
C39_Witness ==
  /\ event.name = "IoCapabilityRequest"
  /\ pairing_delegate
  /\ ~crashed
  /\ state = "WaitUserPasskeyNotification"
  /\ is_pairing
  /\ ~current_pairing[1].initiator

(***************************************************************************)
(* C40. A UserConfirmationRequest outside WaitUserConfirmationRequest, or  *)
(* a UserPasskeyRequest outside WaitUserPasskeyRequest, first fails the    *)
(* negotiation (state Failed, NotSupported to the top-level and every      *)
(* queued callback) and then answers the controller, exactly once, with a  *)
(* rejection: false, respectively no passkey.  The delegate is not called. *)
(***************************************************************************)
Replies(done) == SelectSeq(done, LAMBDA o : o.op = "reply")

RejectedAfterFailure(rejection) ==
  /\ ~crashed'
  /\ state' = "Failed"
  /\ ~is_pairing'
  /\ AllNotifiedOnce(out', QueuedCallbacks, "NotSupported")
  /\ Replies(out') = <<Reply(0, rejection)>>
  /\ out'[Len(out')] = Reply(0, rejection)
  /\ ~DidOp(out', "delegate")
  /\ pending' = WeakPtrsCleared

C40_UnexpectedUserRequestRejected ==
  [][/\ (event'.name = "UserConfirmationRequest" /\ state # "WaitUserConfirmationRequest")
          => RejectedAfterFailure("false")
     /\ (event'.name = "UserPasskeyRequest" /\ state # "WaitUserPasskeyRequest")
          => RejectedAfterFailure("nullopt")]_vars

\* A passkey request hit a Pairing that expected a confirmation request and
\* that a second caller had joined
C40_Witness ==
  /\ event.name = "UserPasskeyRequest"
  /\ state = "Failed"
  /\ out = <<SetState("Failed"), DiscardPairing, StatusCb(TopLevel, "NotSupported"),
             StatusCb(1, "NotSupported"), StatusCb(2, "NotSupported"),
             Reply(0, "nullopt")>>

=============================================================================
